---- MODULE Spec2Model ----
(***************************************************************************)
(* SnapFlow API: entitlement store, Stripe webhook reconciliation, purchase *)
(* access grants and the paid-download gate.                               *)
(*                                                                         *)
(* The relational store is the state (tables Purchase/PurchaseItem and     *)
(* Photo).  Every HTTP handler is an operator from the request (and the    *)
(* store) to its outcome: the response sent and, for a handler that writes, *)
(* the table it leaves.  One action per handler draws the request from a   *)
(* small set and applies the outcome.  Time is counted in hours.           *)
(***************************************************************************)
EXTENDS Integers, Sequences, FiniteSets, TLC

VARIABLES
    env,        \* process.env: which integration secrets are set
    purchases,  \* table Purchase, each row with its PurchaseItem rows
    photos,     \* table Photo
    now,        \* wall clock, hours
    faces,      \* table FaceEmbedding
    collectionReady,  \* the face module's in-process flag
    calls,      \* the indexPhotoFace calls of requests in flight
    search,     \* the last selfie search: its input and its result
    subs,       \* realtime bus: each listener's subscription
    registered, \* realtime bus: the emitter's listeners, in registration order
    received,   \* realtime bus: the payloads each listener was invoked with
    conns       \* the connections to GET /:eventSlug/stream

vars == <<env, purchases, photos, now, faces, collectionReady, calls, search,
          subs, registered, received, conns>>

\* The state of face indexing and selfie search.
faceVars == <<faces, collectionReady, calls, search>>

\* The state of the realtime bus and of the stream connections.
busVars == <<subs, registered, received, conns>>

-----------------------------------------------------------------------------
(* Bounds of the model *)

MaxPurchases == 2
MaxDeliveryPurchases == 1
MaxPhotos == 2
MaxTime == 12
MaxMatches == 2
MaxCalls == 2
MaxEvents == 2

(* Program constants *)

PURCHASE_ACCESS_TOKEN_TTL == 12
DOWNLOAD_URL_TTL == 600

NULL == "null"

PURCHASE_ITEM_ALL_PHOTOS == "ALL_PHOTOS"
PURCHASE_ITEM_SINGLE_PHOTO == "SINGLE_PHOTO"

-----------------------------------------------------------------------------
(* Identifiers.  Row ids are opaque strings; the pools below are the ids    *)
(* the store (cuid) and Stripe (session ids) hand out, in order.            *)

PurchaseIdPool == <<"pur1", "pur2", "pur3", "pur4">>
SessionIdPool == <<"cs_1", "cs_2", "cs_3", "cs_4">>
PhotoIdPool == <<"ph1", "ph2", "ph3", "ph4">>

PurchaseIds == {PurchaseIdPool[i] : i \in 1..MaxPurchases}
PhotoIds == {PhotoIdPool[i] : i \in 1..MaxPhotos}
\* Session ids a webhook may name: those of created sessions and one more.
SessionIds == {SessionIdPool[i] : i \in 1..(MaxPurchases + 1)}

\* Table Event (id, slug, ownerId); event CRUD is outside this model.
Events ==
    { [id |-> "e1", slug |-> "wedding", ownerId |-> "u1"],
      [id |-> "e2", slug |-> "gala", ownerId |-> "u2"] }

EventSlugs == {e.slug : e \in Events} \cup {"no-such-event"}
Users == {"u1", "u2"}

PurchaseStatus == {"PENDING", "PAID", "FAILED", "REFUNDED"}
PhotoStatus == {"DRAFT", "PUBLISHED"}

-----------------------------------------------------------------------------
(* String.prototype.toLowerCase on the e-mail addresses of the model *)

toLowerCase(s) ==
    CASE s = "A@x.io" -> "a@x.io"
      [] s = "B@x.io" -> "b@x.io"
      [] OTHER -> s

-----------------------------------------------------------------------------
(* process.env.  A payment deployment has payments and storage configured, *)
(* or lacks one of them, and has no face search; FaceEnvConfigs below are   *)
(* the deployments with face search.                                        *)

EnvConfigs ==
    { [STRIPE_SECRET_KEY |-> TRUE,  STRIPE_WEBHOOK_SECRET |-> TRUE,  S3_BUCKET |-> TRUE,
       AWS_REKOGNITION_COLLECTION_ID |-> FALSE,
       PURCHASE_ACCESS_TOKEN_SECRET |-> "purchase-secret", JWT_SECRET |-> "jwt-secret"],
      [STRIPE_SECRET_KEY |-> FALSE, STRIPE_WEBHOOK_SECRET |-> TRUE,  S3_BUCKET |-> TRUE,
       AWS_REKOGNITION_COLLECTION_ID |-> FALSE,
       PURCHASE_ACCESS_TOKEN_SECRET |-> "purchase-secret", JWT_SECRET |-> "jwt-secret"],
      [STRIPE_SECRET_KEY |-> TRUE,  STRIPE_WEBHOOK_SECRET |-> FALSE, S3_BUCKET |-> TRUE,
       AWS_REKOGNITION_COLLECTION_ID |-> FALSE,
       PURCHASE_ACCESS_TOKEN_SECRET |-> "purchase-secret", JWT_SECRET |-> "jwt-secret"],
      [STRIPE_SECRET_KEY |-> TRUE,  STRIPE_WEBHOOK_SECRET |-> TRUE,  S3_BUCKET |-> FALSE,
       AWS_REKOGNITION_COLLECTION_ID |-> FALSE,
       PURCHASE_ACCESS_TOKEN_SECRET |-> "purchase-secret", JWT_SECRET |-> "jwt-secret"] }

\* getStripeClient() returns null without STRIPE_SECRET_KEY.
getStripeClient == IF env.STRIPE_SECRET_KEY THEN "stripe" ELSE NULL

\* getStripeWebhookSecret() returns "" without STRIPE_WEBHOOK_SECRET.
getStripeWebhookSecret == IF env.STRIPE_WEBHOOK_SECRET THEN "whsec" ELSE ""

-----------------------------------------------------------------------------
(* Stripe webhook reconciliation *)

\* session.payment_intent is the intent's id (a string) or an expanded object.
PaymentIntents ==
    { [kind |-> "string", id |-> "pi_1"],
      [kind |-> "object", id |-> "pi_1"] }

SucceededTypes == {"checkout.session.completed", "checkout.session.async_payment_succeeded"}
FailedTypes == {"checkout.session.expired", "checkout.session.async_payment_failed"}
StripeEventTypes == SucceededTypes \cup FailedTypes \cup {"payment_intent.created"}

\* event.data.object of a verified event, taken as a Checkout.Session.
StripeSessions ==
    [ id : SessionIds,
      payment_intent : PaymentIntents,
      customer_details_email : {NULL, "B@x.io"},
      customer_email : {NULL, "A@x.io"} ]

StripeEvents == [type : StripeEventTypes, object : StripeSessions]

\* checkout.session.completed events whose session carries its intent's id
\* and no e-mail.
CompletedStripeEvents ==
    { e \in StripeEvents :
        /\ e.type = "checkout.session.completed"
        /\ e.object.payment_intent.kind = "string"
        /\ e.object.customer_details_email = NULL
        /\ e.object.customer_email = NULL }

\* Mutant: every value taken as truthy.
TruthyAlways(v) == TRUE

\* Truthiness of a string-or-null value.
Truthy(v) == v # NULL /\ v # ""

\* x?.toLowerCase()
lowerOrNull(v) == IF v = NULL THEN NULL ELSE toLowerCase(v)

\* a ?? b
Coalesce(a, b) == IF a # NULL THEN a ELSE b

\* Mutant: the paid update without its session condition.
markPurchasePaidAnySession(rows, session) ==
    { [r EXCEPT !.status = "PAID"] : r \in rows }

markPurchasePaid(rows, session) ==
    LET paymentIntentId ==
            IF session.payment_intent.kind = "string"
            THEN session.payment_intent.id ELSE NULL
        buyerEmail ==
            Coalesce(lowerOrNull(session.customer_details_email),
                     lowerOrNull(session.customer_email))
    IN  { IF r.stripeSessionId = session.id
          THEN [r EXCEPT !.status = "PAID",
                         !.stripePaymentId = paymentIntentId,
                         !.buyerEmail = IF Truthy(buyerEmail) THEN buyerEmail ELSE @]
          ELSE r : r \in rows }

\* Mutant: the failed update without its status condition.
markPurchaseFailedAnyStatus(rows, session) ==
    { IF r.stripeSessionId = session.id
      THEN [r EXCEPT !.status = "FAILED"]
      ELSE r : r \in rows }

markPurchaseFailed(rows, session) ==
    { IF r.stripeSessionId = session.id /\ r.status = "PENDING"
      THEN [r EXCEPT !.status = "FAILED"]
      ELSE r : r \in rows }

\* Mutant: a signature check that lets a bad signature through.
constructStripeEventUnchecked(signature) == TRUE

\* constructStripeEvent returns the event (TRUE) or throws (FALSE): it needs
\* the client and the webhook secret, and stripe.webhooks.constructEvent
\* accepts only a signature computed over the payload with that secret.
constructStripeEvent(signature) ==
    /\ getStripeClient # NULL
    /\ getStripeWebhookSecret # ""
    /\ signature = "good"

WebhookSignatures == {NULL, "bad", "good"}

\* A request to POST /webhooks/stripe: the stripe-signature header, whether
\* express.raw produced a Buffer body, and the event the payload encodes.
WebhookRequests(events) ==
    [signature : WebhookSignatures, bodyIsBuffer : BOOLEAN, event : events]

\* The handler's outcome: the response and the Purchase table it leaves.
stripeWebhookHandler(req) ==
    IF req.signature = NULL
    THEN [code |-> 400, error |-> "Missing Stripe signature header.", rows |-> purchases]
    ELSE IF ~req.bodyIsBuffer
    THEN [code |-> 400, error |-> "Invalid webhook payload.", rows |-> purchases]
    ELSE IF ~constructStripeEvent(req.signature)
    THEN [code |-> 400,
          error |-> IF getStripeClient = NULL \/ getStripeWebhookSecret = ""
                    THEN "Stripe webhook is not configured."
                    ELSE "Invalid Stripe signature.",
          rows |-> purchases]
    ELSE LET session == req.event.object IN
         [code |-> 200, error |-> NULL,
          rows |-> CASE req.event.type \in SucceededTypes -> markPurchasePaid(purchases, session)
                     [] req.event.type \in FailedTypes -> markPurchaseFailed(purchases, session)
                     [] OTHER -> purchases]

-----------------------------------------------------------------------------
(* Purchase access tokens (JWT, HS256).  A token is its signing secret, its *)
(* sub and purchaseId claims (NULL when the payload has none) and its exp.  *)

NOTOKEN == [secret |-> "none", sub |-> NULL, purchaseId |-> NULL, exp |-> 0]

\* The empty string where a token is expected (?token= or an empty header).
EMPTYTOKEN == [secret |-> "", sub |-> NULL, purchaseId |-> NULL, exp |-> 0]

\* !token in the download routes: null and the empty string are falsy.
tokenMissing(token) == token \in {NOTOKEN, EMPTYTOKEN}

\* getPurchaseAccessTokenSecret(): PURCHASE_ACCESS_TOKEN_SECRET, else
\* JWT_SECRET, else the fallback "dev-purchase-secret" that the source
\* itself publishes.
getPurchaseAccessTokenSecret ==
    Coalesce(env.PURCHASE_ACCESS_TOKEN_SECRET, Coalesce(env.JWT_SECRET, "dev-purchase-secret"))

\* The clock advances in steps of one validity window.
ClockTick == PURCHASE_ACCESS_TOKEN_TTL
ClockTimes == {t \in 0..MaxTime : t % ClockTick = 0}

signPurchaseAccessToken(purchaseId, iat) ==
    [secret |-> getPurchaseAccessTokenSecret,
     sub |-> purchaseId,
     purchaseId |-> purchaseId,
     exp |-> iat + PURCHASE_ACCESS_TOKEN_TTL]

\* jwt.verify: the signature must be made with the secret and exp must lie
\* in the future; returns whether it decodes (TRUE) or throws (FALSE).
jwtVerify(token, secret) ==
    /\ token.secret = secret
    /\ now < token.exp

\* Mutant: verification that ignores the purchaseId claim.
verifyPurchaseAccessTokenAnySubject(purchaseId, token) ==
    jwtVerify(token, getPurchaseAccessTokenSecret)

\* Mutant: verification by the sub claim in place of the purchaseId claim.
verifyPurchaseAccessTokenBySubject(purchaseId, token) ==
    /\ jwtVerify(token, getPurchaseAccessTokenSecret)
    /\ token.sub # NULL
    /\ token.sub = purchaseId

\* TRUE when verifyPurchaseAccessToken returns, FALSE when it throws.
verifyPurchaseAccessToken(purchaseId, token) ==
    /\ jwtVerify(token, getPurchaseAccessTokenSecret)
    /\ token.purchaseId # NULL
    /\ token.purchaseId = purchaseId

\* Tokens a client can hold at the current time: signed with the server's
\* secret at some past clock time (the session exchange signs them, and the
\* fallback secret lets anyone sign), or signed with another secret.
Tokens ==
    { [secret |-> getPurchaseAccessTokenSecret, sub |-> c, purchaseId |-> c,
       exp |-> t + PURCHASE_ACCESS_TOKEN_TTL] :
        c \in PurchaseIds \cup {NULL},
        t \in {u \in ClockTimes : u <= now} }
    \cup { [secret |-> "other-secret", sub |-> c, purchaseId |-> c,
            exp |-> now + PURCHASE_ACCESS_TOKEN_TTL] : c \in PurchaseIds }

\* The three places a download request may carry its token.
NOAUTH == [scheme |-> NULL, token |-> NOTOKEN]

Credentials ==
    {[authorization |-> NOAUTH, query |-> NOTOKEN, xPurchaseToken |-> NOTOKEN]}
    \cup { [authorization |-> [scheme |-> "Bearer ", token |-> t],
            query |-> NOTOKEN, xPurchaseToken |-> NOTOKEN] : t \in Tokens }
    \cup { [authorization |-> NOAUTH, query |-> t, xPurchaseToken |-> NOTOKEN] : t \in Tokens }
    \cup { [authorization |-> NOAUTH, query |-> NOTOKEN, xPurchaseToken |-> t] : t \in Tokens }

CoalesceToken(a, b) == IF a # NOTOKEN THEN a ELSE b

\* Mutant: the query parameter before the bearer header.
getPurchaseTokenFromRequestQueryFirst(cred) ==
    LET bearerToken ==
            IF cred.authorization.scheme = "Bearer "
            THEN cred.authorization.token ELSE NOTOKEN
    IN  CoalesceToken(cred.query, CoalesceToken(bearerToken, cred.xPurchaseToken))

getPurchaseTokenFromRequest(cred) ==
    LET bearerToken ==
            IF cred.authorization.scheme = "Bearer "
            THEN cred.authorization.token ELSE NOTOKEN
    IN  CoalesceToken(bearerToken, CoalesceToken(cred.query, cred.xPurchaseToken))

-----------------------------------------------------------------------------
(* Storage collaborator *)

\* createSignedDownloadUrl throws without S3_BUCKET (getStorageConfig).
storageConfigured == env.S3_BUCKET

createSignedDownloadUrl(key, expiresInSeconds) ==
    [key |-> key, expiresIn |-> expiresInSeconds]

NOBODY == [none |-> TRUE]
InternalServerError == [code |-> 500, error |-> "Internal server error", body |-> NOBODY]

-----------------------------------------------------------------------------
(* Store queries *)

NOROW == [id |-> NULL]

\* findFirst / findUnique over a set of matching rows.
FindOne(rows) == IF rows = {} THEN NOROW ELSE CHOOSE r \in rows : TRUE

\* Mutant: the purchase lookup without its status condition.
getPurchaseWithItemsAnyStatus(purchaseId) ==
    FindOne({r \in purchases : r.id = purchaseId})

getPaidPurchaseWithItems(purchaseId) ==
    FindOne({r \in purchases : r.id = purchaseId /\ r.status = "PAID"})

\* purchase.items.some(item => item.itemType === PURCHASE_ITEM_ALL_PHOTOS)
hasAllPhotos(purchase) ==
    \E item \in purchase.items : item.itemType = PURCHASE_ITEM_ALL_PHOTOS

\* purchase.items.some(item => item.photoId === photoId)
hasPhotoAccess(purchase, photoId) ==
    \E item \in purchase.items : item.photoId = photoId

\* purchase.items.map(item => item.photoId).filter(Boolean)
purchasedPhotoIds(purchase) ==
    {item.photoId : item \in {i \in purchase.items : Truthy(i.photoId)}}

-----------------------------------------------------------------------------
(* GET /public/purchases/session/:sessionId *)

\* Mutant: the exchange without its status check.
sessionExchangeAnyStatus(sessionId) ==
    LET purchase == FindOne({r \in purchases : r.stripeSessionId = sessionId}) IN
    IF purchase = NOROW
    THEN [code |-> 404, error |-> "Purchase not found for this session.", body |-> NOBODY]
    ELSE [code |-> 200, error |-> NULL,
          body |-> [purchase |-> [id |-> purchase.id,
                                  status |-> purchase.status,
                                  eventId |-> purchase.eventId,
                                  buyerEmail |-> purchase.buyerEmail,
                                  hasAllPhotos |-> hasAllPhotos(purchase),
                                  purchasedPhotoIds |-> purchasedPhotoIds(purchase)],
                    accessToken |-> signPurchaseAccessToken(purchase.id, now)]]

sessionExchange(sessionId) ==
    LET purchase == FindOne({r \in purchases : r.stripeSessionId = sessionId}) IN
    IF purchase = NOROW
    THEN [code |-> 404, error |-> "Purchase not found for this session.", body |-> NOBODY]
    ELSE IF purchase.status # "PAID"
    THEN [code |-> 402, error |-> "Purchase is not paid yet.", body |-> NOBODY]
    ELSE [code |-> 200, error |-> NULL,
          body |-> [purchase |-> [id |-> purchase.id,
                                  status |-> purchase.status,
                                  eventId |-> purchase.eventId,
                                  buyerEmail |-> purchase.buyerEmail,
                                  hasAllPhotos |-> hasAllPhotos(purchase),
                                  purchasedPhotoIds |-> purchasedPhotoIds(purchase)],
                    accessToken |-> signPurchaseAccessToken(purchase.id, now)]]

-----------------------------------------------------------------------------
(* GET /public/purchases/:purchaseId/download/photo/:photoId *)

\* Mutant: the entitlement check dropped.
coversPhotoAlways(purchase, photoId) == TRUE

\* hasAllPhotos || hasPhotoAccess
coversPhoto(purchase, photoId) ==
    hasAllPhotos(purchase) \/ hasPhotoAccess(purchase, photoId)

\* Mutant: the photo lookup by id alone.
findDownloadPhotoAnyEvent(purchase, photoId) ==
    FindOne({ph \in photos : ph.id = photoId})

\* prisma.photo.findFirst({ id: photoId, eventId: purchase.eventId, isUploaded: true })
findDownloadPhoto(purchase, photoId) ==
    FindOne({ph \in photos :
                ph.id = photoId /\ ph.eventId = purchase.eventId /\ ph.isUploaded})

\* Mutant: both 404 answers carry the same message.
downloadPhotoOneNotFound(req) ==
    LET token == getPurchaseTokenFromRequest(req.cred) IN
    IF tokenMissing(token)
    THEN [code |-> 401, error |-> "Purchase access token is required.", body |-> NOBODY]
    ELSE IF ~verifyPurchaseAccessToken(req.purchaseId, token)
    THEN [code |-> 401, error |-> "Invalid purchase access token.", body |-> NOBODY]
    ELSE LET purchase == getPaidPurchaseWithItems(req.purchaseId) IN
    IF purchase = NOROW
    THEN [code |-> 404, error |-> "Not found.", body |-> NOBODY]
    ELSE IF ~coversPhoto(purchase, req.photoId)
    THEN [code |-> 403, error |-> "Photo is not included in this purchase.", body |-> NOBODY]
    ELSE LET photo == findDownloadPhoto(purchase, req.photoId) IN
    IF photo = NOROW
    THEN [code |-> 404, error |-> "Not found.", body |-> NOBODY]
    ELSE IF ~storageConfigured
    THEN InternalServerError
    ELSE [code |-> 200, error |-> NULL,
          body |-> [photoId |-> photo.id,
                    downloadUrl |-> createSignedDownloadUrl(photo.storageKey, DOWNLOAD_URL_TTL)]]

downloadPhoto(req) ==
    LET token == getPurchaseTokenFromRequest(req.cred) IN
    IF tokenMissing(token)
    THEN [code |-> 401, error |-> "Purchase access token is required.", body |-> NOBODY]
    ELSE IF ~verifyPurchaseAccessToken(req.purchaseId, token)
    THEN [code |-> 401, error |-> "Invalid purchase access token.", body |-> NOBODY]
    ELSE LET purchase == getPaidPurchaseWithItems(req.purchaseId) IN
    IF purchase = NOROW
    THEN [code |-> 404, error |-> "Paid purchase not found.", body |-> NOBODY]
    ELSE IF ~coversPhoto(purchase, req.photoId)
    THEN [code |-> 403, error |-> "Photo is not included in this purchase.", body |-> NOBODY]
    ELSE LET photo == findDownloadPhoto(purchase, req.photoId) IN
    IF photo = NOROW
    THEN [code |-> 404, error |-> "Photo not found.", body |-> NOBODY]
    ELSE IF ~storageConfigured
    THEN InternalServerError
    ELSE [code |-> 200, error |-> NULL,
          body |-> [photoId |-> photo.id,
                    downloadUrl |-> createSignedDownloadUrl(photo.storageKey, DOWNLOAD_URL_TTL)]]

-----------------------------------------------------------------------------
(* GET /public/purchases/:purchaseId/download/all *)

\* Mutant: the bundle query without its publication filter.
findBundlePhotosAnyStatus(purchase) ==
    {ph \in photos : ph.eventId = purchase.eventId /\ ph.isUploaded}

\* prisma.photo.findMany({ eventId, isUploaded: true, status: PUBLISHED }).
\* The rows come back as a list ordered by publishedAt and createdAt; the
\* order is not modelled, the list is its set of rows.
findBundlePhotos(purchase) ==
    {ph \in photos :
        ph.eventId = purchase.eventId /\ ph.isUploaded /\ ph.status = "PUBLISHED"}

downloadAll(req) ==
    LET token == getPurchaseTokenFromRequest(req.cred) IN
    IF tokenMissing(token)
    THEN [code |-> 401, error |-> "Purchase access token is required.", body |-> NOBODY]
    ELSE IF ~verifyPurchaseAccessToken(req.purchaseId, token)
    THEN [code |-> 401, error |-> "Invalid purchase access token.", body |-> NOBODY]
    ELSE LET purchase == getPaidPurchaseWithItems(req.purchaseId) IN
    IF purchase = NOROW
    THEN [code |-> 404, error |-> "Paid purchase not found.", body |-> NOBODY]
    ELSE IF ~hasAllPhotos(purchase)
    THEN [code |-> 403, error |-> "All-photos bundle was not purchased.", body |-> NOBODY]
    ELSE LET found == findBundlePhotos(purchase) IN
    IF found # {} /\ ~storageConfigured
    THEN InternalServerError
    ELSE LET files == { [photoId |-> ph.id,
                         downloadUrl |-> createSignedDownloadUrl(ph.storageKey, DOWNLOAD_URL_TTL)] :
                        ph \in found }
         IN [code |-> 200, error |-> NULL,
             body |-> [count |-> Cardinality(files), files |-> files]]

-----------------------------------------------------------------------------
(* POST /public/events/:eventSlug/checkout-session *)

CheckoutRequests ==
    [ eventSlug : EventSlugs,
      email : {"A@x.io"},
      productType : {"single", "all"},
      photoId : PhotoIds \cup {NULL} ]

\* A call of stripe.checkout.sessions.create that threw.
NOSESSION == [id |-> NULL]

\* Mutant: a purchase table without its unique index.
purchaseCreateNoIndex(data) == [error |-> NULL, rows |-> purchases \cup {data}]

\* prisma.purchase.create under the unique index Purchase_stripeSessionId_key:
\* a session id in use raises P2002 and nothing is written.
purchaseCreate(data) ==
    IF \E p \in purchases : p.stripeSessionId = data.stripeSessionId
    THEN [error |-> "P2002", rows |-> purchases]
    ELSE [error |-> NULL, rows |-> purchases \cup {data}]

\* errorHandler, for the errors of this route.
errorHandler(error) ==
    IF error = "P2002" THEN [code |-> 409, error |-> "Resource already exists"]
    ELSE [code |-> 500, error |-> "Internal server error"]

\* Mutant: the photo lookup of a single-photo checkout without its status
\* condition.
findPurchasablePhotoAnyStatus(eventId, photoId) ==
    FindOne({ph \in photos : ph.id = photoId /\ ph.eventId = eventId /\ ph.isUploaded})

findPurchasablePhoto(eventId, photoId) ==
    FindOne({ph \in photos :
                /\ ph.id = photoId
                /\ ph.eventId = eventId
                /\ ph.isUploaded
                /\ ph.status = "PUBLISHED"})

\* The route with the answer of stripe.checkout.sessions.create as an
\* input (NOSESSION when it throws); the field session is the provider
\* session the request created.
checkoutSessionWith(req, session) ==
    LET n == Cardinality(purchases)
        event == FindOne({e \in Events : e.slug = req.eventSlug})
        isSingle == req.productType = "single"
        photo == findPurchasablePhoto(event.id, req.photoId)
        selectedPhotoId == IF isSingle THEN photo.id ELSE NULL
        itemType == IF isSingle THEN PURCHASE_ITEM_SINGLE_PHOTO ELSE PURCHASE_ITEM_ALL_PHOTOS
        refused(code, error) ==
            [code |-> code, error |-> error, rows |-> purchases, session |-> NOSESSION]
        created == purchaseCreate([id |-> PurchaseIdPool[n + 1],
                                   eventId |-> event.id,
                                   buyerEmail |-> toLowerCase(req.email),
                                   stripeSessionId |-> session.id,
                                   stripePaymentId |-> NULL,
                                   status |-> "PENDING",
                                   items |-> {[itemType |-> itemType,
                                               photoId |-> selectedPhotoId]}])
    IN
    IF getStripeClient = NULL THEN refused(503, "Stripe checkout is not configured.")
    ELSE IF isSingle /\ ~Truthy(req.photoId) THEN refused(400, "Validation failed")
    ELSE IF event = NOROW THEN refused(404, "Event not found")
    ELSE IF isSingle /\ photo = NOROW THEN refused(404, "Photo not found for purchase.")
    ELSE IF session = NOSESSION THEN refused(500, "Internal server error")
    ELSE IF created.error # NULL
    THEN [code |-> errorHandler(created.error).code,
          error |-> errorHandler(created.error).error,
          rows |-> created.rows, session |-> session]
    ELSE [code |-> 201, error |-> NULL, rows |-> created.rows, session |-> session]

\* stripeOk: whether stripe.checkout.sessions.create returns a session; the
\* provider gives every session an id of its own.
checkoutSession(req, stripeOk) ==
    LET r == checkoutSessionWith(req,
                 IF stripeOk THEN [id |-> SessionIdPool[Cardinality(purchases) + 1]]
                 ELSE NOSESSION)
    IN [code |-> r.code, error |-> r.error, rows |-> r.rows]

-----------------------------------------------------------------------------
(* Photographer routes on /events/:eventId/photos.  authUser is what        *)
(* requireAuth left in req.authUser (NULL: no valid bearer token).          *)

\* getJwtSecret(): JWT_SECRET, or the fallback of the source.
getJwtSecret == Coalesce(env.JWT_SECRET, "dev-only-change-this-secret")

\* signAccessToken at the current time, valid until exp.
signAccessToken(sub, secret, exp) ==
    [secret |-> secret, sub |-> sub, email |-> "a@x.io", role |-> "PHOTOGRAPHER", exp |-> exp]

\* Access tokens a client may present: a valid one of each user, and one
\* signed with another secret, an expired one and one without a subject.
AccessTokens ==
    { signAccessToken(u, getJwtSecret, now + 1) : u \in Users }
    \cup { signAccessToken("u1", "other-secret", now + 1),
           signAccessToken("u1", getJwtSecret, now),
           signAccessToken(NULL, getJwtSecret, now + 1) }

\* TRUE when verifyAccessToken returns, FALSE when it throws.
verifyAccessToken(token) ==
    /\ token # NOTOKEN
    /\ jwtVerify(token, getJwtSecret)
    /\ token.sub # NULL

\* The Authorization header of a request: absent, Bearer with a token or
\* with none, or another scheme.
AuthorizationHeaders ==
    {NOAUTH}
    \cup { [scheme |-> "Bearer ", token |-> t] : t \in AccessTokens \cup {NOTOKEN} }
    \cup { [scheme |-> "Basic ", token |-> signAccessToken("u1", getJwtSecret, now + 1)] }

\* requireAuth: req.authUser (the subject) when next() is called, NULL when
\* the middleware answers 401.
requireAuth(authorization) ==
    IF authorization.scheme # "Bearer " THEN NULL
    ELSE IF verifyAccessToken(authorization.token) THEN authorization.token.sub
    ELSE NULL

PhotoRequests ==
    [authUser : Users \cup {NULL}, eventId : {e.id : e \in Events}, photoId : PhotoIds]

\* Mutant: the event lookup without its owner condition.
assertEventOwnerAnyOwner(eventId, ownerId) ==
    FindOne({e \in Events : e.id = eventId})

\* assertEventOwner
assertEventOwner(eventId, ownerId) ==
    FindOne({e \in Events : e.id = eventId /\ e.ownerId = ownerId})

findEventPhoto(eventId, photoId) ==
    FindOne({ph \in photos : ph.id = photoId /\ ph.eventId = eventId})

\* The response of a route that ends in serializePhoto / a signed upload URL.
StorageResponse(okCode) ==
    IF storageConfigured THEN [code |-> okCode, error |-> NULL]
    ELSE [code |-> 500, error |-> "Internal server error"]

WithRows(r, rows) == [code |-> r.code, error |-> r.error, rows |-> rows]

Denied(code, error) == [code |-> code, error |-> error, rows |-> photos]

uploadUrl(req) ==
    LET n == Cardinality(photos)
        id == PhotoIdPool[n + 1]
    IN
    IF req.authUser = NULL THEN Denied(401, "Unauthorized")
    ELSE IF assertEventOwner(req.eventId, req.authUser) = NOROW
    THEN Denied(404, "Event not found")
    ELSE WithRows(StorageResponse(201),
                  photos \cup { [id |-> id,
                                 eventId |-> req.eventId,
                                 storageKey |-> <<"events", req.eventId, "original", id>>,
                                 isUploaded |-> FALSE,
                                 status |-> "DRAFT"] })

UpdatePhoto(photo, isUploaded, status) ==
    (photos \ {photo}) \cup {[photo EXCEPT !.isUploaded = isUploaded, !.status = status]}

completeUpload(req) ==
    LET photo == findEventPhoto(req.eventId, req.photoId) IN
    IF req.authUser = NULL THEN Denied(401, "Unauthorized")
    ELSE IF assertEventOwner(req.eventId, req.authUser) = NOROW
    THEN Denied(404, "Event not found")
    ELSE IF photo = NOROW THEN Denied(404, "Photo not found")
    ELSE WithRows(StorageResponse(200), UpdatePhoto(photo, TRUE, photo.status))

\* Mutant: publish without the upload check.
publishPhotoAnyUpload(req) ==
    LET existingPhoto == findEventPhoto(req.eventId, req.photoId) IN
    IF req.authUser = NULL THEN Denied(401, "Unauthorized")
    ELSE IF assertEventOwner(req.eventId, req.authUser) = NOROW
    THEN Denied(404, "Event not found")
    ELSE IF existingPhoto = NOROW THEN Denied(404, "Photo not found")
    ELSE WithRows(StorageResponse(200),
                  UpdatePhoto(existingPhoto, existingPhoto.isUploaded, "PUBLISHED"))

publishPhoto(req) ==
    LET existingPhoto == findEventPhoto(req.eventId, req.photoId) IN
    IF req.authUser = NULL THEN Denied(401, "Unauthorized")
    ELSE IF assertEventOwner(req.eventId, req.authUser) = NOROW
    THEN Denied(404, "Event not found")
    ELSE IF existingPhoto = NOROW THEN Denied(404, "Photo not found")
    ELSE IF ~existingPhoto.isUploaded THEN Denied(400, "Photo upload is not complete")
    ELSE WithRows(StorageResponse(200),
                  UpdatePhoto(existingPhoto, existingPhoto.isUploaded, "PUBLISHED"))

unpublishPhoto(req) ==
    LET existingPhoto == findEventPhoto(req.eventId, req.photoId) IN
    IF req.authUser = NULL THEN Denied(401, "Unauthorized")
    ELSE IF assertEventOwner(req.eventId, req.authUser) = NOROW
    THEN Denied(404, "Event not found")
    ELSE IF existingPhoto = NOROW THEN Denied(404, "Photo not found")
    ELSE WithRows(StorageResponse(200),
                  UpdatePhoto(existingPhoto, existingPhoto.isUploaded, "DRAFT"))

-----------------------------------------------------------------------------
(* Face search (AWS Rekognition): configuration and provider answers *)

FACE_PROVIDER == "aws-rekognition"

\* Deployments for face search: configured, or without the collection id.
FaceEnvConfigs ==
    { [STRIPE_SECRET_KEY |-> TRUE, STRIPE_WEBHOOK_SECRET |-> TRUE, S3_BUCKET |-> TRUE,
       AWS_REKOGNITION_COLLECTION_ID |-> c,
       PURCHASE_ACCESS_TOKEN_SECRET |-> "purchase-secret", JWT_SECRET |-> "jwt-secret"] : c \in BOOLEAN }

\* getFaceSearchConfig() returns null without bucket or collection id.
getFaceSearchConfig ==
    IF ~env.S3_BUCKET \/ ~env.AWS_REKOGNITION_COLLECTION_ID THEN NULL ELSE "config"

\* Face handles the provider hands out, in the order the store lists them.
FaceIdOrder == <<"f1", "f2", "f3">>
FaceIds == {FaceIdOrder[i] : i \in 1..Len(FaceIdOrder)}

\* The rows of FaceEmbedding: the photo and the provider's handle.
FaceRow(photoId, externalId) ==
    [photoId |-> photoId, provider |-> FACE_PROVIDER, externalId |-> externalId]

\* An exception thrown by a provider or store call, by its name.
ErrorNames == {"InvalidParameterException", "Error"}

\* Similarity * 10: 0, 87.0 and 91.2.
Similarities == {0, 870, 912}

\* One entry of FaceMatches: Face.FaceId and Similarity.  The answer may
\* lack the handle (NULL) or the similarity (no such field).
FaceMatchEntries ==
    [FaceId : FaceIds, Similarity : Similarities]
    \cup {[FaceId |-> NULL, Similarity |-> 912], [FaceId |-> "f1"]}

SeqsUpTo(S, n) == UNION {[1..k -> S] : k \in 0..n}

\* What the provider and the store do during one selfie search: the answer
\* to SearchFacesByImage, or the call that throws and the name it throws.
SearchRuns ==
    { [thrower |-> NULL, name |-> NULL, FaceMatches |-> m] :
        m \in SeqsUpTo(FaceMatchEntries, MaxMatches) }
    \cup { [thrower |-> t, name |-> n, FaceMatches |-> <<[FaceId |-> "f1", Similarity |-> 912]>>] :
            t \in {"ensureCollection", "SearchFacesByImage", "faceEmbedding.findMany",
                   "serializePhoto"},
            n \in ErrorNames }

\* The inputs of findSelfieMatches.  descending: the store returns the
\* FaceEmbedding rows in descending instead of ascending order of handle
\* (the query has no orderBy).
SelfieSearchInputs ==
    [eventId : {"e1"}, limit : {1, 24}, run : SearchRuns, descending : BOOLEAN]

-----------------------------------------------------------------------------
(* findSelfieMatches *)

\* serializePhoto: the fields of the photo a match carries.
serializePhoto(photo) ==
    [id |-> photo.id, eventId |-> photo.eventId, status |-> photo.status,
     previewUrl |-> createSignedDownloadUrl(photo.storageKey, NULL)]

Reverse(seq) == [i \in 1..Len(seq) |-> seq[Len(seq) + 1 - i]]

\* typeof match.Similarity === "number"
IsNumber(match) == "Similarity" \in DOMAIN match

\* The loop over faceMatches that fills the Map similarityByFaceId (a
\* function from the handles kept so far to their similarity).
RECURSIVE similarityByFaceId(_, _)
similarityByFaceId(faceMatches, map) ==
    IF faceMatches = <<>> THEN map
    ELSE LET match == Head(faceMatches) IN
         IF match.FaceId = NULL \/ ~IsNumber(match)
         THEN similarityByFaceId(Tail(faceMatches), map)
         ELSE LET faceId == match.FaceId
                  similarity == match.Similarity
                  previous == IF faceId \in DOMAIN map THEN map[faceId] ELSE 0
              IN IF similarity > previous
                 THEN similarityByFaceId(
                          Tail(faceMatches),
                          [h \in DOMAIN map \cup {faceId} |->
                              IF h = faceId THEN similarity ELSE map[h]])
                 ELSE similarityByFaceId(Tail(faceMatches), map)

\* Mutant: the photo filter of the FaceEmbedding query without the event.
eligiblePhotoAnyEvent(photoId, eventId) ==
    \E ph \in photos : ph.id = photoId /\ ph.status = "PUBLISHED" /\ ph.isUploaded

\* photo: { eventId, status: PUBLISHED, isUploaded: true }
eligiblePhoto(photoId, eventId) ==
    \E ph \in photos :
        ph.id = photoId /\ ph.eventId = eventId /\ ph.status = "PUBLISHED" /\ ph.isUploaded

\* prisma.faceEmbedding.findMany: the rows with one of the handles whose
\* photo is eligible, as a list in ascending or descending order of handle.
findFaceEmbeddings(faceIds, eventId, descending) ==
    LET found == { f \in faces :
                     /\ f.provider = FACE_PROVIDER
                     /\ f.externalId \in faceIds
                     /\ eligiblePhoto(f.photoId, eventId) }
        Has(h) == \E f \in found : f.externalId = h
        order == SelectSeq(IF descending THEN Reverse(FaceIdOrder) ELSE FaceIdOrder, Has)
    IN [i \in 1..Len(order) |-> CHOOSE f \in found : f.externalId = order[i]]

\* The loop over faceEmbeddings that fills the Map bestByPhotoId, kept as
\* the list of its entries in insertion order.
RECURSIVE bestByPhotoId(_, _, _)
bestByPhotoId(faceEmbeddings, sims, best) ==
    IF faceEmbeddings = <<>> THEN best
    ELSE LET embedding == Head(faceEmbeddings)
             similarity == IF embedding.externalId \in DOMAIN sims
                           THEN sims[embedding.externalId] ELSE 0
             at == {i \in 1..Len(best) : best[i].photoId = embedding.photoId}
         IN IF at = {}
            THEN bestByPhotoId(Tail(faceEmbeddings), sims,
                               Append(best, [photoId |-> embedding.photoId,
                                             similarity |-> similarity]))
            ELSE LET i == CHOOSE j \in at : TRUE IN
                 IF similarity > best[i].similarity
                 THEN bestByPhotoId(Tail(faceEmbeddings), sims,
                                    [best EXCEPT ![i].similarity = similarity])
                 ELSE bestByPhotoId(Tail(faceEmbeddings), sims, best)

\* Array.prototype.sort((a, b) => b.similarity - a.similarity): stable,
\* descending.  x goes behind every entry that is not smaller.
InsertDescending(sorted, x) ==
    LET k == Cardinality({i \in 1..Len(sorted) : sorted[i].similarity >= x.similarity})
    IN SubSeq(sorted, 1, k) \o <<x>> \o SubSeq(sorted, k + 1, Len(sorted))

\* Mutant: the matches left in the order of the store.
sortBySimilarityUnsorted(seq) == seq

RECURSIVE sortBySimilarity(_)
sortBySimilarity(seq) ==
    IF seq = <<>> THEN <<>>
    ELSE InsertDescending(sortBySimilarity(SubSeq(seq, 1, Len(seq) - 1)), seq[Len(seq)])

\* Array.prototype.slice(0, limit), for limit >= 0.
slice(seq, limit) == SubSeq(seq, 1, IF limit < Len(seq) THEN limit ELSE Len(seq))

\* A result of findSelfieMatches together with what the call leaves behind:
\* the ready flag and the tables.
SelfieSearchResult(status, matches, message, ready) ==
    [status |-> status, matches |-> matches, message |-> message,
     collectionReady |-> ready,
     photos |-> photos, faces |-> faces, purchases |-> purchases]

\* The catch block of findSelfieMatches.
selfieSearchCatch(name, ready) ==
    IF name = "InvalidParameterException"
    THEN SelfieSearchResult("no_face_detected", <<>>, "No face detected in the selfie.", ready)
    ELSE SelfieSearchResult("error", <<>>, "Face match search failed.", ready)

findSelfieMatches(input) ==
    LET run == input.run
        throws(call) == run.thrower = call
    IN
    IF getFaceSearchConfig = NULL
    THEN SelfieSearchResult("disabled", <<>>, "Face search is not configured.", collectionReady)
    ELSE IF ~collectionReady /\ throws("ensureCollection")
    THEN selfieSearchCatch(run.name, FALSE)
    ELSE IF throws("SearchFacesByImage")
    THEN selfieSearchCatch(run.name, TRUE)
    ELSE LET faceMatches == run.FaceMatches IN
    IF Len(faceMatches) = 0
    THEN SelfieSearchResult("no_matches", <<>>, NULL, TRUE)
    ELSE LET sims == similarityByFaceId(faceMatches, <<>>)
             faceIds == DOMAIN sims
    IN
    IF faceIds = {}
    THEN SelfieSearchResult("no_face_detected", <<>>, "No face detected in the selfie.", TRUE)
    ELSE IF throws("faceEmbedding.findMany")
    THEN selfieSearchCatch(run.name, TRUE)
    ELSE LET faceEmbeddings == findFaceEmbeddings(faceIds, input.eventId, input.descending) IN
    IF Len(faceEmbeddings) = 0
    THEN SelfieSearchResult("no_matches", <<>>, NULL, TRUE)
    ELSE LET best == bestByPhotoId(faceEmbeddings, sims, <<>>)
             topMatches == slice(sortBySimilarity(best), input.limit)
    IN
    IF throws("serializePhoto")
    THEN selfieSearchCatch(run.name, TRUE)
    ELSE SelfieSearchResult(
             "ok",
             [i \in 1..Len(topMatches) |->
                 [similarity |-> topMatches[i].similarity,
                  photo |-> serializePhoto(
                                CHOOSE ph \in photos : ph.id = topMatches[i].photoId)]],
             NULL, TRUE)

\* The slots for indexPhotoFace calls in flight, and a slot not in use.
CallSlots == 1..MaxCalls
IDLE == [pc |-> "idle"]

NOSEARCH == [input |-> NULL]

-----------------------------------------------------------------------------
(* indexPhotoFace, one awaited provider or store call at a time *)

\* The most face records one IndexFaces answer carries in the model.
MaxFaceRecords == 2
MaxHandleCalls == 2

\* A call of indexPhotoFace made by a route for a photo.  pc names the call
\* it awaits; existing are the handles clearExistingPhotoFaces found;
\* faceRecords is the IndexFaces answer; sent are the provider commands
\* answered so far, faults the calls that threw, cleared whether deleteMany
\* ran.
Call(pc, route, photoId) ==
    [pc |-> pc, route |-> route, photoId |-> photoId, existing |-> {},
     faceRecords |-> <<>>, status |-> NULL, sent |-> {}, faults |-> {},
     cleared |-> FALSE]

Return(call, status) == [call EXCEPT !.pc = "done", !.status = status]

\* An exception inside the try of indexPhotoFace: the catch returns "error".
Throw(call, step) ==
    [call EXCEPT !.pc = "done", !.status = "error", !.faults = @ \cup {step}]

Sent(call, command) == [call EXCEPT !.sent = @ \cup {command}]

After(call, ready, rows) == [call |-> call, collectionReady |-> ready, faces |-> rows]

InFlight == {c \in CallSlots : calls[c].pc \notin {"idle", "done"}}

\* The slot a new call takes: the first one with no call in flight.
FreeSlot == CHOOSE c \in CallSlots \ InFlight : \A d \in CallSlots \ InFlight : c <= d

\* indexPhotoFace up to its first awaited call: "disabled" without a
\* configuration; ensureCollection returns at once when collectionReady.
indexPhotoFace(route, photoId) ==
    IF getFaceSearchConfig = NULL THEN Return(Call("done", route, photoId), "disabled")
    ELSE IF collectionReady THEN Call("faceEmbedding.findMany", route, photoId)
    ELSE Call("DescribeCollection", route, photoId)

DescribeOutcomes == {"ok", "ResourceNotFoundException", "Error"}

\* ensureCollection: the answer to DescribeCollection.
describeCollection(call, outcome) ==
    LET sent == Sent(call, "DescribeCollection") IN
    IF outcome = "ok"
    THEN After([sent EXCEPT !.pc = "faceEmbedding.findMany"], TRUE, faces)
    ELSE IF outcome = "ResourceNotFoundException"
    THEN After([sent EXCEPT !.pc = "CreateCollection"], collectionReady, faces)
    ELSE After(Throw(sent, "DescribeCollection"), collectionReady, faces)

\* ensureCollection: the answer to CreateCollection.
createCollection(call, ok) ==
    LET sent == Sent(call, "CreateCollection") IN
    IF ok THEN After([sent EXCEPT !.pc = "faceEmbedding.findMany"], TRUE, faces)
    ELSE After(Throw(sent, "CreateCollection"), collectionReady, faces)

\* clearExistingPhotoFaces: the answer to findMany.
findExistingFaces(call, ok) ==
    LET faceIds == {f.externalId : f \in {g \in faces : g.photoId = call.photoId
                                                        /\ g.provider = FACE_PROVIDER}}
    IN
    IF ~ok THEN After(Throw(call, "faceEmbedding.findMany"), collectionReady, faces)
    ELSE IF getFaceSearchConfig # NULL /\ faceIds # {}
    THEN After([call EXCEPT !.existing = faceIds, !.pc = "DeleteFaces"], collectionReady, faces)
    ELSE After([call EXCEPT !.existing = faceIds, !.pc = "faceEmbedding.deleteMany"],
               collectionReady, faces)

\* Mutant: a failed DeleteFaces of the prior faces ends the call.
deletePriorFacesFatal(call, ok) ==
    IF ok THEN After([Sent(call, "DeleteFaces") EXCEPT !.pc = "faceEmbedding.deleteMany"],
                     collectionReady, faces)
    ELSE After(Throw(Sent(call, "DeleteFaces"), "DeleteFaces"), collectionReady, faces)

\* clearExistingPhotoFaces: the answer to DeleteFaces; a failure is swallowed.
deletePriorFaces(call, ok) ==
    LET sent == Sent(call, "DeleteFaces") IN
    After([sent EXCEPT !.pc = "faceEmbedding.deleteMany",
                       !.faults = IF ok THEN @ ELSE @ \cup {"DeleteFaces"}],
          collectionReady, faces)

\* Mutant: deleteMany removes nothing.
deleteManyFacesNone(call, ok) ==
    IF ~ok THEN After(Throw(call, "faceEmbedding.deleteMany"), collectionReady, faces)
    ELSE After([call EXCEPT !.cleared = TRUE, !.pc = "IndexFaces"], collectionReady, faces)

\* clearExistingPhotoFaces: the answer to deleteMany.
deleteManyFaces(call, ok) ==
    IF ~ok THEN After(Throw(call, "faceEmbedding.deleteMany"), collectionReady, faces)
    ELSE After([call EXCEPT !.cleared = TRUE, !.pc = "IndexFaces"], collectionReady,
               {f \in faces : ~(f.photoId = call.photoId /\ f.provider = FACE_PROVIDER)})

\* The handles in use: the provider issues each handle once.
UsedFaceIds ==
    {f.externalId : f \in faces}
    \cup UNION {{calls[c].faceRecords[i] : i \in 1..Len(calls[c].faceRecords)} : c \in InFlight}

\* The first n handles not in use, in the provider's order.
RECURSIVE FreshFaceIds(_, _)
FreshFaceIds(n, from) ==
    IF n = 0 \/ from > Len(FaceIdOrder) THEN <<>>
    ELSE IF FaceIdOrder[from] \in UsedFaceIds THEN FreshFaceIds(n, from + 1)
    ELSE <<FaceIdOrder[from]>> \o FreshFaceIds(n - 1, from + 1)

\* The answers to IndexFaces: FaceRecords with up to MaxFaceRecords new
\* handles, or one record without a FaceId, or an exception.
IndexFacesResponses ==
    {[fault |-> FALSE, FaceRecords |-> FreshFaceIds(n, 1)] : n \in 0..MaxFaceRecords}
    \cup {[fault |-> FALSE, FaceRecords |-> <<NULL>>], [fault |-> TRUE, FaceRecords |-> <<>>]}

\* indexPhotoFace: the answer to IndexFaces.
indexFaces(call, response) ==
    LET sent == Sent(call, "IndexFaces")
        faceRecords == response.FaceRecords
        faceId == IF Len(faceRecords) = 0 THEN NULL ELSE faceRecords[1]
        extraFaceIds == {faceRecords[i] : i \in 2..Len(faceRecords)} \ {NULL}
        got == [sent EXCEPT !.faceRecords = faceRecords]
    IN IF response.fault THEN After(Throw(sent, "IndexFaces"), collectionReady, faces)
       ELSE IF faceId = NULL
       THEN After(Return(got, "no_face_detected"), collectionReady, faces)
       ELSE IF Len(faceRecords) > 1 /\ extraFaceIds # {}
       THEN After([got EXCEPT !.pc = "DeleteExtraFaces"], collectionReady, faces)
       ELSE After([got EXCEPT !.pc = "faceEmbedding.create"], collectionReady, faces)

\* indexPhotoFace: the answer to DeleteFaces for the extra faces.
deleteExtraFaces(call, ok) ==
    LET sent == Sent(call, "DeleteFaces") IN
    IF ok THEN After([sent EXCEPT !.pc = "faceEmbedding.create"], collectionReady, faces)
    ELSE After(Throw(sent, "DeleteExtraFaces"), collectionReady, faces)

\* indexPhotoFace: the answer to faceEmbedding.create; (provider, externalId)
\* is unique.
createFaceEmbedding(call, ok) ==
    IF ~ok \/ \E f \in faces : f.provider = FACE_PROVIDER /\ f.externalId = call.faceRecords[1]
    THEN After(Throw(call, "faceEmbedding.create"), collectionReady, faces)
    ELSE After(Return(call, "indexed"), collectionReady,
               faces \cup {FaceRow(call.photoId, call.faceRecords[1])})

\* POST publish: hasIndexedFace ? undefined : await indexPhotoFace(updated).
hasIndexedFace(call) ==
    IF \E f \in faces : f.photoId = call.photoId /\ f.provider = FACE_PROVIDER
    THEN After(Return(call, NULL), collectionReady, faces)
    ELSE After(indexPhotoFace(call.route, call.photoId), collectionReady, faces)

-----------------------------------------------------------------------------
(* Realtime bus (node:events EventEmitter) *)

RealtimePhotoEventTypes == {"photo.uploaded", "photo.published", "photo.unpublished"}

\* The listener functions of the model.  A stream connection and its
\* listener share the id.
ListenerIds == {"l1", "l2"}

\* What a listener does when invoked: the stream's listener writes the
\* update to its response; a listener may also call the unsubscribe function
\* of another subscription (its peer).
ListenerKinds == {"write", "unsubscribePeer"}

getChannel(eventSlug) == [event |-> eventSlug]

\* A listener never passed to subscribeEventUpdates.  offAt is the number of
\* payloads the listener had received when its unsubscribe returned.
NOSUB == [state |-> "new", kind |-> NULL, peer |-> NULL, offAt |-> -1]

\* A connection slot not in use.
NOCONN ==
    [pc |-> "idle", eventSlug |-> NULL, connected |-> FALSE, keepAliveTimer |-> FALSE,
     closeHandler |-> FALSE, lateWrite |-> FALSE]

\* The bus and the connections as one value.
Bus == [subs |-> subs, registered |-> registered, received |-> received, conns |-> conns]

\* res.write on the response of connection id: the write is late when the
\* client is gone.
resWrite(bus, id) ==
    IF bus.conns[id].pc # "idle" /\ ~bus.conns[id].connected
    THEN [bus EXCEPT !.conns[id].lateWrite = TRUE]
    ELSE bus

\* EventEmitter.off(channel, listener), the function subscribeEventUpdates
\* returns.
unsubscribe(bus, id) ==
    [bus EXCEPT
        !.registered = SelectSeq(@, LAMBDA e : e.id # id),
        !.subs[id] = IF @.state = "on"
                     THEN [@ EXCEPT !.state = "off", !.offAt = Len(bus.received[id])]
                     ELSE @]

\* Mutant: emit invokes the listeners of every channel.
snapshotAnyChannel(bus, channel) ==
    [i \in 1..Len(bus.registered) |-> bus.registered[i].id]

\* EventEmitter.emit copies the channel's listener array before it invokes
\* the listeners.
snapshot(bus, channel) ==
    LET on == SelectSeq(bus.registered, LAMBDA e : e.channel = channel)
    IN [i \in 1..Len(on) |-> on[i].id]

\* The invocations of one emit, in the order of the copy.
RECURSIVE invokeListeners(_, _, _)
invokeListeners(listeners, bus, payload) ==
    IF listeners = <<>> THEN bus
    ELSE LET id == Head(listeners)
             got == resWrite([bus EXCEPT !.received[id] = Append(@, payload)], id)
             after == IF bus.subs[id].kind = "unsubscribePeer"
                      THEN unsubscribe(got, bus.subs[id].peer)
                      ELSE got
         IN invokeListeners(Tail(listeners), after, payload)

emit(bus, channel, payload) == invokeListeners(snapshot(bus, channel), bus, payload)

PublishInputs ==
    [eventSlug : {e.slug : e \in Events}, photoId : {PhotoIdPool[1]},
     type : RealtimePhotoEventTypes]

publishEventUpdate(bus, input) ==
    emit(bus, getChannel(input.eventSlug),
         [type |-> input.type, eventSlug |-> input.eventSlug, photoId |-> input.photoId,
          timestamp |-> now])

\* Mutant: a new subscriber is handed what the channel's first listener has
\* received so far.
subscribeEventUpdatesReplay(bus, eventSlug, id, kind, peer) ==
    LET on == snapshot(bus, getChannel(eventSlug)) IN
    [bus EXCEPT
        !.registered = Append(@, [channel |-> getChannel(eventSlug), id |-> id]),
        !.subs[id] = [state |-> "on", kind |-> kind, peer |-> peer, offAt |-> -1],
        !.received[id] = IF on = <<>> THEN @ ELSE bus.received[on[1]]]

\* subscribeEventUpdates(eventSlug, listener) for a new listener function.
subscribeEventUpdates(bus, eventSlug, id, kind, peer) ==
    [bus EXCEPT
        !.registered = Append(@, [channel |-> getChannel(eventSlug), id |-> id]),
        !.subs[id] = [state |-> "on", kind |-> kind, peer |-> peer, offAt |-> -1]]

InitBus ==
    /\ subs = [l \in ListenerIds |-> NOSUB]
    /\ registered = <<>>
    /\ received = [l \in ListenerIds |-> <<>>]
    /\ conns = [l \in ListenerIds |-> NOCONN]

\* The bus after an operation.
SetBus(bus) ==
    /\ subs' = bus.subs
    /\ registered' = bus.registered
    /\ received' = bus.received
    /\ conns' = bus.conns

\* Mutant: the publish and unpublish routes announce each other's type.
RouteEventTypeSwapped(route) ==
    CASE route = "complete" -> "photo.uploaded"
      [] route = "publish" -> "photo.unpublished"
      [] OTHER -> "photo.published"

\* The type each photographer route passes to publishEventUpdate.
RouteEventType(route) ==
    CASE route = "complete" -> "photo.uploaded"
      [] route = "publish" -> "photo.published"
      [] OTHER -> "photo.unpublished"

\* The update a route publishes: event.slug, updated.id and its type.
routeUpdate(route, photoId) ==
    LET photo == CHOOSE ph \in photos : ph.id = photoId
        event == CHOOSE e \in Events : e.id = photo.eventId
    IN [eventSlug |-> event.slug, photoId |-> photoId, type |-> RouteEventType(route)]

\* A route goes on to publishEventUpdate when no indexing is awaited any
\* more.
finishRoute(bus, call) ==
    IF call.pc = "done"
    THEN publishEventUpdate(bus, routeUpdate(call.route, call.photoId))
    ELSE bus

PhotoRoutes == {"complete", "publish", "unpublish"}

photoRouteOutcome(route, req) ==
    CASE route = "complete" -> completeUpload(req)
      [] route = "publish" -> publishPhoto(req)
      [] OTHER -> unpublishPhoto(req)

\* The routes return early with 400, 401 or 404.
Accepted(r) == r.code \notin {400, 401, 404}

\* A photographer route up to its first awaited face call: the response
\* code, the Photo table, the face call it awaits (a finished one when it
\* awaits none) and the bus.
photoRoute(route, req) ==
    LET r == photoRouteOutcome(route, req)
        call == IF route = "unpublish" THEN Return(Call("done", route, req.photoId), NULL)
                ELSE IF route = "complete" THEN indexPhotoFace(route, req.photoId)
                ELSE Call("faceEmbedding.findFirst", route, req.photoId)
    IN IF Accepted(r)
       THEN [code |-> r.code, error |-> r.error, rows |-> r.rows, call |-> call,
             bus |-> finishRoute(Bus, call)]
       ELSE [code |-> r.code, error |-> r.error, rows |-> photos, call |-> IDLE,
             bus |-> Bus]

\* A request finds room when the listeners can take the updates of the
\* requests in flight and one more.
HasRoom ==
    \A l \in ListenerIds :
        subs[l].state = "on" => Len(received[l]) + Cardinality(InFlight) < MaxEvents

-----------------------------------------------------------------------------
(* POST /public/events/:eventSlug/find-me *)

\* Number(text) for the texts of the model, in tenths: a finite number, NaN
\* or Infinity.  Number("") is 0.
Finite(tenths) == [kind |-> "finite", tenths |-> tenths]
NaN == [kind |-> "NaN", tenths |-> 0]

Number(text) ==
    CASE text = "" -> Finite(0)
      [] text = "0" -> Finite(0)
      [] text = "1" -> Finite(10)
      [] text = "2.5" -> Finite(25)
      [] text = "24" -> Finite(240)
      [] text = "50" -> Finite(500)
      [] text = "51" -> Finite(510)
      [] text = "80" -> Finite(800)
      [] text = "95.5" -> Finite(955)
      [] text = "-5" -> Finite(-50)
      [] text = "150" -> Finite(1500)
      [] text = "Infinity" -> [kind |-> "Infinity", tenths |-> 0]
      [] OTHER -> NaN

mathMax(a, b) == IF a < b THEN b ELSE a
mathMin(a, b) == IF a < b THEN a ELSE b

\* Mutant: the threshold without its clamp.
getMatchThresholdUnclamped(override) ==
    LET threshold == Number(IF override = NULL THEN "80" ELSE override) IN
    IF threshold.kind = "finite" THEN threshold.tenths ELSE 800

\* getMatchThreshold, in tenths, for FACE_MATCH_THRESHOLD = override (NULL
\* when unset).
getMatchThreshold(override) ==
    LET threshold == Number(IF override = NULL THEN "80" ELSE override) IN
    IF threshold.kind = "finite"
    THEN mathMax(0, mathMin(1000, threshold.tenths))
    ELSE 800

\* MaxFaces of SearchFacesByImageCommand.
SEARCH_MAX_FACES == 50

\* The SearchFacesByImage command of findSelfieMatches.
searchFacesByImageCommand(override) ==
    [MaxFaces |-> SEARCH_MAX_FACES, FaceMatchThreshold |-> getMatchThreshold(override)]

NOFILE == [mimetype |-> NULL]

NOLIMIT == [ok |-> FALSE, limit |-> 0]

\* Mutant: the limit schema without its upper end.
findMeQuerySchemaNoMax(limit) ==
    LET n == Number(limit) IN
    IF limit = NULL THEN [ok |-> TRUE, limit |-> 24]
    ELSE IF n.kind = "finite" /\ n.tenths % 10 = 0 /\ n.tenths \div 10 >= 1
    THEN [ok |-> TRUE, limit |-> n.tenths \div 10]
    ELSE NOLIMIT

\* findMeQuerySchema.parse: z.coerce.number().int().min(1).max(50)
\* .optional().default(24) on the query value (NULL when absent).
findMeQuerySchema(limit) ==
    LET n == Number(limit) IN
    IF limit = NULL THEN [ok |-> TRUE, limit |-> 24]
    ELSE IF /\ n.kind = "finite"
            /\ n.tenths % 10 = 0
            /\ n.tenths \div 10 >= 1
            /\ n.tenths \div 10 <= 50
    THEN [ok |-> TRUE, limit |-> n.tenths \div 10]
    ELSE NOLIMIT

NOMATCHERCALL == [eventId |-> NULL, limit |-> 0]

\* The route up to its call of findSelfieMatches: the early answer, or
\* code 0 and the matcher's input.  lookedUp: prisma.event.findUnique ran.
findMe(req) ==
    LET parsed == findMeQuerySchema(req.limit)
        event == FindOne({e \in Events : e.slug = req.eventSlug})
        early(code, error, lookedUp) ==
            [code |-> code, error |-> error, lookedUp |-> lookedUp,
             matcher |-> NOMATCHERCALL]
    IN
    IF ~parsed.ok THEN early(400, "Validation failed", FALSE)
    ELSE IF req.file = NOFILE
    THEN early(400, "Selfie image is required in field 'selfie'.", FALSE)
    ELSE IF req.file.mimetype # "image/"
    THEN early(400, "Only image uploads are allowed for selfie matching.", FALSE)
    ELSE IF event = NOROW THEN early(404, "Event not found", TRUE)
    ELSE [code |-> 0, error |-> NULL, lookedUp |-> TRUE,
          matcher |-> [eventId |-> event.id, limit |-> parsed.limit]]

\* The answer after findSelfieMatches returned.
findMeResponse(result) ==
    CASE result.status = "disabled" -> 503
      [] result.status = "error" -> 500
      [] OTHER -> 200

-----------------------------------------------------------------------------
(* GET /public/events/:eventSlug/photos *)

\* Mutant: the gallery query without its publication filter.
findGalleryPhotosAnyStatus(eventId) ==
    {ph \in photos : ph.eventId = eventId /\ ph.isUploaded}

\* prisma.photo.findMany({ eventId, isUploaded: true, status: PUBLISHED });
\* the order of the list is not modelled, the list is its set of rows.
findGalleryPhotos(eventId) ==
    {ph \in photos : ph.eventId = eventId /\ ph.isUploaded /\ ph.status = "PUBLISHED"}

\* serializePhoto signs a preview URL for each photo and throws without
\* storage.
listEventPhotos(eventSlug) ==
    LET event == FindOne({e \in Events : e.slug = eventSlug})
        found == findGalleryPhotos(event.id)
    IN
    IF event = NOROW
    THEN [code |-> 404, error |-> "Event not found", body |-> NOBODY]
    ELSE IF found # {} /\ ~storageConfigured
    THEN InternalServerError
    ELSE [code |-> 200, error |-> NULL,
          body |-> [photos |-> {serializePhoto(ph) : ph \in found}]]

-----------------------------------------------------------------------------
(* Requests *)

SessionRequests == SessionIds

DownloadPhotoRequests ==
    [purchaseId : PurchaseIds, photoId : PhotoIds, cred : Credentials]

DownloadAllRequests == [purchaseId : PurchaseIds, cred : Credentials]

\* Verified deliveries of checkout.session.completed.
CompletedWebhookRequests ==
    [signature : {"good"}, bodyIsBuffer : {TRUE}, event : CompletedStripeEvents]

HttpCodes == {200, 201, 400, 401, 402, 403, 404, 500, 503}

-----------------------------------------------------------------------------
(* The state machine *)

\* No face is indexed, no call is in flight and nothing was searched.
InitFace ==
    /\ faces = {}
    /\ collectionReady = FALSE
    /\ calls = [c \in CallSlots |-> IDLE]
    /\ search = NOSEARCH
    /\ InitBus

Init ==
    /\ env \in EnvConfigs
    /\ purchases = {}
    /\ photos = {}
    /\ now = 0
    /\ InitFace

\* POST /webhooks/stripe, for the requests in reqs.
StripeWebhook(reqs) ==
    \E req \in reqs :
        /\ purchases' = stripeWebhookHandler(req).rows
        /\ UNCHANGED <<env, photos, now, faceVars, busVars>>

\* Checkout, while fewer than limit purchases exist.
CheckoutSession(limit) ==
    /\ Cardinality(purchases) < limit
    /\ \E req \in CheckoutRequests, stripeOk \in BOOLEAN :
        /\ purchases' = checkoutSession(req, stripeOk).rows
        /\ UNCHANGED <<env, photos, now, faceVars, busVars>>

\* The read-only routes answer every request with one of their codes and
\* leave the store as it is.
SessionExchange ==
    /\ \A sessionId \in SessionRequests : sessionExchange(sessionId).code \in HttpCodes
    /\ UNCHANGED vars

DownloadPhoto ==
    /\ \A req \in DownloadPhotoRequests : downloadPhoto(req).code \in HttpCodes
    /\ UNCHANGED vars

DownloadAll ==
    /\ \A req \in DownloadAllRequests : downloadAll(req).code \in HttpCodes
    /\ UNCHANGED vars

ListEventPhotos ==
    /\ \A eventSlug \in EventSlugs : listEventPhotos(eventSlug).code \in HttpCodes
    /\ UNCHANGED vars

UploadUrl ==
    /\ Cardinality(photos) < MaxPhotos
    /\ \E req \in PhotoRequests :
        /\ photos' = uploadUrl(req).rows
        /\ UNCHANGED <<env, purchases, now, faceVars, busVars>>

\* Where face search is not configured indexPhotoFace returns "disabled" at
\* once and the complete and publish routes are one step each.
CompleteUpload ==
    /\ HasRoom
    /\ \E req \in PhotoRequests :
        LET r == photoRoute("complete", req) IN
        /\ getFaceSearchConfig = NULL
        /\ photos' = r.rows
        /\ SetBus(r.bus)
        /\ UNCHANGED <<env, purchases, now, faceVars>>

PublishPhoto ==
    /\ HasRoom
    /\ \E req \in PhotoRequests :
        LET r == photoRoute("publish", req)
            answered == IF Accepted(r) THEN hasIndexedFace(r.call).call ELSE r.call
        IN
        /\ getFaceSearchConfig = NULL
        /\ photos' = r.rows
        /\ SetBus(IF Accepted(r) THEN finishRoute(Bus, answered) ELSE Bus)
        /\ UNCHANGED <<env, purchases, now, faceVars>>

UnpublishPhoto ==
    /\ HasRoom
    /\ \E req \in PhotoRequests :
        LET r == photoRoute("unpublish", req) IN
        /\ photos' = r.rows
        /\ SetBus(r.bus)
        /\ UNCHANGED <<env, purchases, now, faceVars>>

AdvanceClock ==
    /\ now + ClockTick <= MaxTime
    /\ now' = now + ClockTick
    /\ UNCHANGED <<env, purchases, photos, faceVars, busVars>>

\* Payment reconciliation and grants: checkout, every webhook delivery, the
\* session exchange and the download routes, before any photo is uploaded.
Next ==
    \/ CheckoutSession(MaxPurchases)
    \/ StripeWebhook(WebhookRequests(StripeEvents))
    \/ SessionExchange
    \/ DownloadPhoto
    \/ DownloadAll
    \/ AdvanceClock

Spec == Init /\ [][Next]_vars

\* A purchase row the store already holds when the process starts.  The
\* schema admits four statuses; REFUNDED is written by no route of this API.
StoredPurchase(status) ==
    [id |-> PurchaseIdPool[1],
     eventId |-> "e1",
     buyerEmail |-> "a@x.io",
     stripeSessionId |-> SessionIdPool[1],
     stripePaymentId |-> IF status \in {"PAID", "REFUNDED"} THEN "pi_1" ELSE NULL,
     status |-> status,
     items |-> {[itemType |-> PURCHASE_ITEM_ALL_PHOTOS, photoId |-> NULL]}]

InitStored ==
    /\ env \in EnvConfigs
    /\ purchases \in {{}} \cup {{StoredPurchase(st)} : st \in PurchaseStatus}
    /\ photos = {}
    /\ now = 0
    /\ InitFace

SpecStored == InitStored /\ [][Next]_vars

\* The delivery gate: photographers change photos, buyers check out, pay and
\* download.
NextDelivery ==
    \/ UploadUrl
    \/ CompleteUpload
    \/ PublishPhoto
    \/ UnpublishPhoto
    \/ CheckoutSession(MaxDeliveryPurchases)
    \/ StripeWebhook(CompletedWebhookRequests)
    \/ DownloadPhoto
    \/ DownloadAll
    \/ ListEventPhotos
    \/ AdvanceClock

SpecDelivery == Init /\ [][NextDelivery]_vars

-----------------------------------------------------------------------------
(* Selfie search over a store of photos and indexed faces *)

\* A photo as upload, completion and publication leave it.
StoredPhoto(id, eventId, stage) ==
    [id |-> id, eventId |-> eventId,
     storageKey |-> <<"events", eventId, "original", id>>,
     isUploaded |-> stage # "created",
     status |-> IF stage = "published" THEN "PUBLISHED" ELSE "DRAFT"]

\* Two photos of event e1 at any stage and a published photo of event e2.
MatchPhotoTables ==
    { {StoredPhoto("ph1", "e1", s1), StoredPhoto("ph2", "e1", s2),
       StoredPhoto("ph3", "e2", "published")} :
        s1 \in {"created", "uploaded", "published"},
        s2 \in {"created", "uploaded", "published"} }

\* The FaceEmbedding tables over them: handle f1 on ph1, f2 on ph1 or ph2,
\* f3 on ph3, each only once its photo is uploaded.
MatchFaceTables(photoTable) ==
    { t \in SUBSET { FaceRow("ph1", "f1"), FaceRow("ph1", "f2"), FaceRow("ph2", "f2"),
                     FaceRow("ph3", "f3") } :
        /\ \A f \in t : \E ph \in photoTable : ph.id = f.photoId /\ ph.isUploaded
        /\ \A f \in t, g \in t : f.externalId = g.externalId => f = g }

InitMatch ==
    /\ env \in FaceEnvConfigs
    /\ purchases = {}
    /\ photos \in MatchPhotoTables
    /\ faces \in MatchFaceTables(photos)
    /\ now = 0
    /\ collectionReady \in BOOLEAN
    /\ calls = [c \in CallSlots |-> IDLE]
    /\ search = NOSEARCH
    /\ InitBus

\* One call of findSelfieMatches on the store as it is: the result is kept
\* with its input, the ready flag and the tables are what the call leaves.
\* POST find-me with one of the given inputs: the search the model records.
FindSelfieMatchesIn(inputs) ==
    /\ search = NOSEARCH
    /\ \E input \in inputs :
        LET result == findSelfieMatches(input) IN
        /\ search' = [input |-> input, result |-> result]
        /\ collectionReady' = result.collectionReady
        /\ photos' = result.photos
        /\ faces' = result.faces
        /\ purchases' = result.purchases
        /\ UNCHANGED <<env, now, calls, busVars>>

FindSelfieMatches == FindSelfieMatchesIn(SelfieSearchInputs)

NextMatch == FindSelfieMatches

SpecMatch == InitMatch /\ [][NextMatch]_vars

-----------------------------------------------------------------------------
(* Face indexing by the upload-complete and publish routes *)

\* Photos the upload-url route created and the complete route may have
\* marked uploaded, before any face was indexed.
IndexPhotoTables ==
    { {StoredPhoto("ph1", "e1", s1), StoredPhoto("ph2", "e1", s2)} :
        s1, s2 \in {"created", "uploaded"} }

InitIndex ==
    /\ env \in FaceEnvConfigs
    /\ purchases = {}
    /\ photos \in IndexPhotoTables
    /\ now = 0
    /\ InitFace

\* POST complete while fewer than limit index calls are in flight: the photo
\* is marked uploaded and indexPhotoFace(updated) is called.
CompleteUploadIndex(limit) ==
    /\ Cardinality(InFlight) < limit
    /\ HasRoom
    /\ \E req \in PhotoRequests :
        LET r == photoRoute("complete", req) IN
        /\ r.code = 200
        /\ photos' = r.rows
        /\ calls' = [calls EXCEPT ![FreeSlot] = r.call]
        /\ SetBus(r.bus)
        /\ UNCHANGED <<env, purchases, now, faces, collectionReady, search>>

\* POST publish while fewer than limit index calls are in flight: the photo
\* is published and the route asks the store whether a face is indexed.
PublishPhotoIndex(limit) ==
    /\ Cardinality(InFlight) < limit
    /\ HasRoom
    /\ \E req \in PhotoRequests :
        LET r == photoRoute("publish", req) IN
        /\ r.code = 200
        /\ photos' = r.rows
        /\ calls' = [calls EXCEPT ![FreeSlot] = r.call]
        /\ SetBus(r.bus)
        /\ UNCHANGED <<env, purchases, now, faces, collectionReady, search>>

\* The awaited call of slot c answers with the step's outcome; when
\* indexPhotoFace has returned the route publishes its update.
Answer(c, after) ==
    /\ calls' = [calls EXCEPT ![c] = after.call]
    /\ collectionReady' = after.collectionReady
    /\ faces' = after.faces
    /\ SetBus(finishRoute(Bus, after.call))
    /\ UNCHANGED <<env, purchases, photos, now, search>>

HasIndexedFace ==
    \E c \in CallSlots :
        /\ calls[c].pc = "faceEmbedding.findFirst"
        /\ Answer(c, hasIndexedFace(calls[c]))

DescribeCollection ==
    \E c \in CallSlots, outcome \in DescribeOutcomes :
        /\ calls[c].pc = "DescribeCollection"
        /\ Answer(c, describeCollection(calls[c], outcome))

CreateCollection ==
    \E c \in CallSlots, ok \in BOOLEAN :
        /\ calls[c].pc = "CreateCollection"
        /\ Answer(c, createCollection(calls[c], ok))

FindExistingFaces ==
    \E c \in CallSlots, ok \in BOOLEAN :
        /\ calls[c].pc = "faceEmbedding.findMany"
        /\ Answer(c, findExistingFaces(calls[c], ok))

DeletePriorFaces ==
    \E c \in CallSlots, ok \in BOOLEAN :
        /\ calls[c].pc = "DeleteFaces"
        /\ Answer(c, deletePriorFaces(calls[c], ok))

DeleteManyFaces ==
    \E c \in CallSlots, ok \in BOOLEAN :
        /\ calls[c].pc = "faceEmbedding.deleteMany"
        /\ Answer(c, deleteManyFaces(calls[c], ok))

IndexFaces ==
    \E c \in CallSlots :
        /\ calls[c].pc = "IndexFaces"
        /\ \E response \in IndexFacesResponses : Answer(c, indexFaces(calls[c], response))

DeleteExtraFaces ==
    \E c \in CallSlots, ok \in BOOLEAN :
        /\ calls[c].pc = "DeleteExtraFaces"
        /\ Answer(c, deleteExtraFaces(calls[c], ok))

CreateFaceEmbedding ==
    \E c \in CallSlots, ok \in BOOLEAN :
        /\ calls[c].pc = "faceEmbedding.create"
        /\ Answer(c, createFaceEmbedding(calls[c], ok))

\* The searches made while photos are being indexed: every call that may
\* throw, and the answers of at most one entry.
IndexSearchInputs ==
    {input \in SelfieSearchInputs :
        /\ input.limit = 24
        /\ ~input.descending
        /\ Len(input.run.FaceMatches) <= 1}

FindSelfieMatchesIndexing == FindSelfieMatchesIn(IndexSearchInputs)

IndexSteps ==
    \/ HasIndexedFace
    \/ DescribeCollection
    \/ CreateCollection
    \/ FindExistingFaces
    \/ DeletePriorFaces
    \/ DeleteManyFaces
    \/ IndexFaces
    \/ DeleteExtraFaces
    \/ CreateFaceEmbedding

\* Index calls one after the other: a route starts one only when none is in
\* flight.  A selfie search may come at any point; the model follows the
\* indexing up to the search it records.
NextIndex ==
    \/ search = NOSEARCH /\ CompleteUploadIndex(1)
    \/ search = NOSEARCH /\ PublishPhotoIndex(1)
    \/ search = NOSEARCH /\ IndexSteps
    \/ FindSelfieMatchesIndexing

SpecIndex == InitIndex /\ [][NextIndex]_vars

\* Index calls of concurrent requests, up to MaxCalls in flight.
NextIndexRace ==
    \/ CompleteUploadIndex(MaxCalls)
    \/ PublishPhotoIndex(MaxCalls)
    \/ IndexSteps

\* The race needs one photo: its upload is completed and it is published by
\* requests that overlap.
InitIndexRace ==
    /\ env \in FaceEnvConfigs
    /\ purchases = {}
    /\ photos \in {{StoredPhoto("ph1", "e1", s)} : s \in {"created", "uploaded"}}
    /\ now = 0
    /\ InitFace

SpecIndexRace == InitIndexRace /\ [][NextIndexRace]_vars

-----------------------------------------------------------------------------
(* Payments under each configuration of the two token secrets *)

\* PURCHASE_ACCESS_TOKEN_SECRET and JWT_SECRET, each set or unset.
SecretEnvConfigs ==
    { [STRIPE_SECRET_KEY |-> TRUE, STRIPE_WEBHOOK_SECRET |-> TRUE, S3_BUCKET |-> TRUE,
       AWS_REKOGNITION_COLLECTION_ID |-> FALSE,
       PURCHASE_ACCESS_TOKEN_SECRET |-> p, JWT_SECRET |-> j] :
        p \in {NULL, "purchase-secret"}, j \in {NULL, "jwt-secret"} }

InitSecrets ==
    /\ env \in SecretEnvConfigs
    /\ purchases = {}
    /\ photos = {}
    /\ now = 0
    /\ InitFace

SpecSecrets == InitSecrets /\ [][Next]_vars

-----------------------------------------------------------------------------
(* Checkout in its two awaited steps, with the provider's webhook *)

\* A checkout request between stripe.checkout.sessions.create and
\* prisma.purchase.create.  delivered: the provider's succeeded webhook for
\* the session was processed and acknowledged.
CheckoutCall(req, session) ==
    [pc |-> "purchase.create", route |-> "checkout", req |-> req, session |-> session,
     delivered |-> FALSE]

\* The provider gives the session an id of its own.
NewSession ==
    [id |-> SessionIdPool[Cardinality(purchases) + Cardinality(InFlight) + 1]]

\* The request passed its checks and the provider created the session; the
\* handler awaits the insertion of the purchase.
CreateCheckoutSession ==
    /\ Cardinality(purchases) + Cardinality(InFlight) < MaxPurchases
    /\ Cardinality(InFlight) < MaxCalls
    /\ \E req \in CheckoutRequests :
        /\ checkoutSessionWith(req, NewSession).code = 201
        /\ calls' = [calls EXCEPT ![FreeSlot] = CheckoutCall(req, NewSession)]
        /\ UNCHANGED <<env, purchases, photos, now, faces, collectionReady, search, busVars>>

\* prisma.purchase.create and the 201 answer.
InsertPurchase ==
    \E c \in CallSlots :
        /\ calls[c].pc = "purchase.create"
        /\ purchases' = checkoutSessionWith(calls[c].req, calls[c].session).rows
        /\ calls' = [calls EXCEPT ![c].pc = "done"]
        /\ UNCHANGED <<env, photos, now, faces, collectionReady, search, busVars>>

\* The provider delivers a verified succeeded event for a session it
\* created, once: an acknowledged event is not delivered again.
SucceededWebhook ==
    \E c \in CallSlots, event \in StripeEvents :
        LET r == stripeWebhookHandler([signature |-> "good", bodyIsBuffer |-> TRUE,
                                       event |-> event])
        IN
        /\ calls[c].pc \in {"purchase.create", "done"}
        /\ ~calls[c].delivered
        /\ event.type \in SucceededTypes
        /\ event.object.id = calls[c].session.id
        /\ purchases' = r.rows
        /\ calls' = [calls EXCEPT ![c].delivered = (r.code = 200)]
        /\ UNCHANGED <<env, photos, now, faces, collectionReady, search, busVars>>

NextCheckoutRace ==
    \/ CreateCheckoutSession
    \/ InsertPurchase
    \/ SucceededWebhook

SpecCheckoutRace == Init /\ [][NextCheckoutRace]_vars

-----------------------------------------------------------------------------
(* Find-me requests *)

\* The query value of limit (NULL: absent) and the uploaded file: none, an
\* image, or a file of another type.
FindMeRequests ==
    [eventSlug : EventSlugs,
     limit : {NULL, "", "0", "1", "2.5", "24", "50", "51", "abc"},
     file : {NOFILE, [mimetype |-> "image/"], [mimetype |-> "application/pdf"]}]

\* FACE_MATCH_THRESHOLD: unset, or any text.
ThresholdOverrides == {NULL, "", "80", "95.5", "-5", "150", "abc", "Infinity"}

FindMeRuns ==
    { [thrower |-> NULL, name |-> NULL, FaceMatches |-> m] :
        m \in {<<>>, <<[FaceId |-> "f1", Similarity |-> 912]>>,
               <<[FaceId |-> "f2", Similarity |-> 870], [FaceId |-> "f1", Similarity |-> 912]>>} }
    \cup { [thrower |-> t, name |-> "Error",
            FaceMatches |-> <<[FaceId |-> "f1", Similarity |-> 912]>>] :
            t \in {"ensureCollection", "SearchFacesByImage"} }

\* The command reaches the provider when the search is configured and
\* ensureCollection returned.
CommandSent(run) ==
    /\ getFaceSearchConfig # NULL
    /\ ~(~collectionReady /\ run.thrower = "ensureCollection")

NOCOMMAND == [MaxFaces |-> 0, FaceMatchThreshold |-> -1]

\* One find-me request: refused early, or answered from findSelfieMatches.
\* The request is kept with its answer and the command sent to the provider.
FindMe ==
    /\ search = NOSEARCH
    /\ \E req \in FindMeRequests, run \in FindMeRuns, override \in ThresholdOverrides :
        LET r == findMe(req)
            input == [eventId |-> r.matcher.eventId, limit |-> r.matcher.limit,
                      run |-> run, descending |-> FALSE]
            result == findSelfieMatches(input)
        IN
        IF r.code # 0
        THEN /\ search' = [input |-> req, result |-> NULL, code |-> r.code,
                           override |-> override, command |-> NOCOMMAND]
             /\ UNCHANGED <<env, purchases, photos, now, faces, collectionReady, calls, busVars>>
        ELSE /\ search' = [input |-> req, result |-> result.status,
                           code |-> findMeResponse(result), override |-> override,
                           command |-> IF CommandSent(run)
                                       THEN searchFacesByImageCommand(override)
                                       ELSE NOCOMMAND]
             /\ collectionReady' = result.collectionReady
             /\ photos' = result.photos
             /\ faces' = result.faces
             /\ purchases' = result.purchases
             /\ UNCHANGED <<env, now, calls, busVars>>

InitFindMe ==
    /\ env \in FaceEnvConfigs
    /\ purchases = {}
    /\ photos = {StoredPhoto("ph1", "e1", "published"), StoredPhoto("ph2", "e1", "published")}
    /\ faces = {FaceRow("ph1", "f1"), FaceRow("ph2", "f2")}
    /\ now = 0
    /\ collectionReady \in BOOLEAN
    /\ calls = [c \in CallSlots |-> IDLE]
    /\ search = NOSEARCH
    /\ InitBus

NextFindMe == FindMe

SpecFindMe == InitFindMe /\ [][NextFindMe]_vars

-----------------------------------------------------------------------------
(* ensureCollection against a provider that holds the collection or not *)

\* The collection starts absent and this process is its only creator: it
\* exists from the step in which a CreateCollection succeeded, which is the
\* step that sets collectionReady.
CollectionExists == collectionReady

\* Rekognition answers DescribeCollection with ResourceNotFoundException
\* while the collection is absent.
ProviderDescribeCollection ==
    \E c \in CallSlots :
        /\ calls[c].pc = "DescribeCollection"
        /\ Answer(c, describeCollection(calls[c],
                        IF CollectionExists THEN "ok" ELSE "ResourceNotFoundException"))

\* Rekognition answers CreateCollection on an existing collection with
\* ResourceAlreadyExistsException.
ProviderCreateCollection ==
    \E c \in CallSlots :
        /\ calls[c].pc = "CreateCollection"
        /\ Answer(c, createCollection(calls[c], ~CollectionExists))

NextEnsure ==
    \/ CompleteUploadIndex(MaxCalls)
    \/ PublishPhotoIndex(MaxCalls)
    \/ HasIndexedFace
    \/ ProviderDescribeCollection
    \/ ProviderCreateCollection
    \/ FindExistingFaces
    \/ DeletePriorFaces
    \/ DeleteManyFaces
    \/ IndexFaces
    \/ DeleteExtraFaces
    \/ CreateFaceEmbedding

\* Face search is configured, nothing is indexed and the collection is
\* absent; one photo awaits completion and publication.
InitEnsure ==
    /\ env \in {e \in FaceEnvConfigs : e.AWS_REKOGNITION_COLLECTION_ID}
    /\ purchases = {}
    /\ photos = {StoredPhoto("ph1", "e1", "created")}
    /\ now = 0
    /\ InitFace

SpecEnsure == InitEnsure /\ [][NextEnsure]_vars

-----------------------------------------------------------------------------
(* The realtime bus through its three operations *)

SubscribeInputs ==
    { [eventSlug |-> slug, id |-> l, kind |-> k, peer |-> p] :
        slug \in {e.slug : e \in Events}, l \in ListenerIds, k \in ListenerKinds,
        p \in ListenerIds \cup {NULL} }

SubscribeEventUpdates ==
    \E input \in SubscribeInputs :
        /\ subs[input.id].state = "new"
        /\ input.kind = "write" <=> input.peer = NULL
        /\ input.peer # input.id
        /\ SetBus(subscribeEventUpdates(Bus, input.eventSlug, input.id, input.kind, input.peer))
        /\ UNCHANGED <<env, purchases, photos, now, faceVars>>

\* The caller of subscribeEventUpdates calls the function it got back.
Unsubscribe ==
    \E l \in ListenerIds :
        /\ subs[l].state = "on"
        /\ SetBus(unsubscribe(Bus, l))
        /\ UNCHANGED <<env, purchases, photos, now, faceVars>>

\* publishEventUpdate, while every listener has room for the payload.
PublishEventUpdate ==
    /\ \A l \in ListenerIds : Len(received[l]) < MaxEvents
    /\ \E input \in PublishInputs :
        /\ SetBus(publishEventUpdate(Bus, input))
        /\ UNCHANGED <<env, purchases, photos, now, faceVars>>

InitBusOnly ==
    /\ env \in FaceEnvConfigs
    /\ purchases = {}
    /\ photos = {}
    /\ now = 0
    /\ InitFace

NextBus ==
    \/ SubscribeEventUpdates
    \/ Unsubscribe
    \/ PublishEventUpdate
    \/ AdvanceClock

SpecBus == InitBusOnly /\ [][NextBus]_vars

-----------------------------------------------------------------------------
(* GET /public/events/:eventSlug/stream *)

findEventBySlug(eventSlug) == FindOne({e \in Events : e.slug = eventSlug})

\* The handler after prisma.event.findUnique answered: 404, or the stream
\* is set up: first write, bus listener, keep-alive timer, close handler.
streamEvents(bus, id) ==
    LET conn == bus.conns[id] IN
    IF findEventBySlug(conn.eventSlug) = NOROW
    THEN [bus EXCEPT !.conns[id].pc = "notfound"]
    ELSE LET written == resWrite(bus, id)
             subscribed == subscribeEventUpdates(written, conn.eventSlug, id, "write", NULL)
         IN [subscribed EXCEPT !.conns[id].pc = "streaming",
                               !.conns[id].keepAliveTimer = TRUE,
                               !.conns[id].closeHandler = TRUE]

\* The client goes away: req emits "close" to the handlers registered at
\* that moment.  The route's handler clears the timer, unsubscribes and ends
\* the response.
clientClose(bus, id) ==
    LET gone == [bus EXCEPT !.conns[id].connected = FALSE] IN
    IF bus.conns[id].closeHandler
    THEN [unsubscribe(gone, id) EXCEPT !.conns[id].keepAliveTimer = FALSE,
                                       !.conns[id].pc = "ended"]
    ELSE gone

\* A client requests the stream of an event slug.
OpenStream ==
    \E id \in ListenerIds, eventSlug \in EventSlugs :
        /\ conns[id].pc = "idle"
        /\ conns' = [conns EXCEPT ![id] = [NOCONN EXCEPT !.pc = "lookup",
                                                        !.eventSlug = eventSlug,
                                                        !.connected = TRUE]]
        /\ UNCHANGED <<env, purchases, photos, now, faceVars, subs, registered, received>>

StreamEvents ==
    \E id \in ListenerIds :
        /\ conns[id].pc = "lookup"
        /\ SetBus(streamEvents(Bus, id))
        /\ UNCHANGED <<env, purchases, photos, now, faceVars>>

ClientClose ==
    \E id \in ListenerIds :
        /\ conns[id].pc \in {"lookup", "streaming"}
        /\ conns[id].connected
        /\ SetBus(clientClose(Bus, id))
        /\ UNCHANGED <<env, purchases, photos, now, faceVars>>

\* The interval of a connection fires: res.write(": keepalive").
KeepAlive ==
    \E id \in ListenerIds :
        /\ conns[id].keepAliveTimer
        /\ SetBus(resWrite(Bus, id))
        /\ UNCHANGED <<env, purchases, photos, now, faceVars>>

NextStream ==
    \/ OpenStream
    \/ StreamEvents
    \/ ClientClose
    \/ KeepAlive
    \/ PublishEventUpdate

SpecStream == InitBusOnly /\ [][NextStream]_vars

-----------------------------------------------------------------------------
(* Unsubscribe handles, with a listener function subscribed more than once *)

\* The place of the last registration of the listener on the channel, 0
\* when it has none.
lastIndexOf(list, channel, id) ==
    LET at == {i \in 1..Len(list) : list[i].channel = channel /\ list[i].id = id}
    IN IF at = {} THEN 0 ELSE CHOOSE i \in at : \A k \in at : k <= i

\* EventEmitter.off(channel, listener): removeListener takes at most one
\* instance of the listener out of the channel's array, the most recently
\* added one.
off(list, channel, id) ==
    LET k == lastIndexOf(list, channel, id)
    IN IF k = 0 THEN list
       ELSE SubSeq(list, 1, k - 1) \o SubSeq(list, k + 1, Len(list))

\* The function subscribeEventUpdates returned: it closes over the channel
\* and the listener.  called counts the calls made to it.
Handle(channel, id) ==
    [pc |-> "handle", channel |-> channel, listener |-> id, called |-> 0]

Handles == {c \in CallSlots : calls[c].pc = "handle"}

\* subscribeEventUpdates(eventSlug, listener), for any listener function,
\* subscribed before or not; the caller keeps the handle.
SubscribeHandle ==
    \E c \in CallSlots, slug \in {e.slug : e \in Events}, l \in ListenerIds :
        /\ calls[c] = IDLE
        /\ SetBus(subscribeEventUpdates(Bus, slug, l, "write", NULL))
        /\ calls' = [calls EXCEPT ![c] = Handle(getChannel(slug), l)]
        /\ UNCHANGED <<env, purchases, photos, now, faces, collectionReady, search>>

\* A call of a handle, the first or a later one.
CallHandle ==
    \E c \in Handles :
        /\ calls[c].called < MaxHandleCalls
        /\ registered' = off(registered, calls[c].channel, calls[c].listener)
        /\ calls' = [calls EXCEPT ![c].called = @ + 1]
        /\ UNCHANGED <<env, purchases, photos, now, faces, collectionReady, search,
                       subs, received, conns>>

NextHandles ==
    \/ SubscribeHandle
    \/ CallHandle
    \/ PublishEventUpdate

SpecHandles == InitBusOnly /\ [][NextHandles]_vars

-----------------------------------------------------------------------------
(* The photographer routes with subscribers on the bus *)

\* One photo in each event, and one listener on the channel of each event.
InitRealtime ==
    /\ env \in FaceEnvConfigs
    /\ purchases = {}
    /\ photos \in { {StoredPhoto("ph1", "e1", s1), StoredPhoto("ph2", "e2", s2)} :
                      s1, s2 \in {"created", "uploaded"} }
    /\ now = 0
    /\ faces = {}
    /\ collectionReady = FALSE
    /\ calls = [c \in CallSlots |-> IDLE]
    /\ search = NOSEARCH
    /\ subs = [l \in ListenerIds |->
                 [state |-> "on", kind |-> "write", peer |-> NULL, offAt |-> -1]]
    /\ registered = <<[channel |-> getChannel("wedding"), id |-> "l1"],
                      [channel |-> getChannel("gala"), id |-> "l2"]>>
    /\ received = [l \in ListenerIds |-> <<>>]
    /\ conns = [l \in ListenerIds |-> NOCONN]

NextRealtime ==
    \/ CompleteUploadIndex(1)
    \/ PublishPhotoIndex(1)
    \/ UnpublishPhoto
    \/ IndexSteps

SpecRealtime == InitRealtime /\ [][NextRealtime]_vars

-----------------------------------------------------------------------------
(* Checkout against a provider whose session ids the store must tell apart *)

\* One photo in each event, at any stage.
InitCheckout ==
    /\ env \in EnvConfigs
    /\ purchases = {}
    /\ photos \in { {StoredPhoto("ph1", "e1", s1), StoredPhoto("ph2", "e2", s2)} :
                      s1, s2 \in {"created", "uploaded", "published"} }
    /\ now = 0
    /\ InitFace

\* Checkout where the provider answers with any session id, throws, or is
\* not reached.
CheckoutSessionAnyId ==
    /\ Cardinality(purchases) < MaxPurchases
    /\ \E req \in CheckoutRequests, session \in {[id |-> i] : i \in SessionIds} \cup {NOSESSION} :
        /\ purchases' = checkoutSessionWith(req, session).rows
        /\ UNCHANGED <<env, photos, now, faceVars, busVars>>

NextCheckout ==
    \/ CheckoutSessionAnyId
    \/ StripeWebhook(CompletedWebhookRequests)
    \/ UnpublishPhoto

SpecCheckout == InitCheckout /\ [][NextCheckout]_vars

-----------------------------------------------------------------------------
(* Properties of payment reconciliation *)

\* Verified deliveries: the signature checks out and the body is raw.
VerifiedRequests(types) ==
    { req \in WebhookRequests(StripeEvents) :
        /\ req.signature = "good"
        /\ req.bodyIsBuffer
        /\ req.event.type \in types }

RowOf(rows, id) == CHOOSE r \in rows : r.id = id

\* C1: a failed-payment or expired-session reconciliation never takes a
\* purchase out of PAID.  Whatever failed delivery arrives, every row that is
\* not PENDING is left exactly as it was, and a row that does change was
\* PENDING, carried the delivery's session id, and becomes FAILED.
C1_FailedOnlyFromPending ==
    \A req \in WebhookRequests(StripeEvents) :
        req.event.type \in FailedTypes =>
            LET out == stripeWebhookHandler(req) IN
            /\ {r.id : r \in out.rows} = {r.id : r \in purchases}
            /\ \A r \in purchases :
                  /\ r.status = "PAID" => RowOf(out.rows, r.id).status = "PAID"
                  /\ r.status # "PENDING" => RowOf(out.rows, r.id) = r
                  /\ RowOf(out.rows, r.id) # r =>
                        /\ r.status = "PENDING"
                        /\ r.stripeSessionId = req.event.object.id
                        /\ RowOf(out.rows, r.id) = [r EXCEPT !.status = "FAILED"]

\* A PAID purchase and a PENDING one, and a verified failed delivery for each
\* session: the first is accepted and changes nothing, the second writes FAILED.
C1_Witness ==
    \E paid \in purchases, pending \in purchases :
        /\ paid.status = "PAID"
        /\ pending.status = "PENDING"
        /\ \E r1 \in VerifiedRequests(FailedTypes), r2 \in VerifiedRequests(FailedTypes) :
              /\ r1.event.object.id = paid.stripeSessionId
              /\ stripeWebhookHandler(r1).code = 200
              /\ stripeWebhookHandler(r1).rows = purchases
              /\ r2.event.object.id = pending.stripeSessionId
              /\ RowOf(stripeWebhookHandler(r2).rows, pending.id).status = "FAILED"

\* C4: a webhook request with no signature header, with a body that is not
\* the raw buffer, with a signature that does not verify, or arriving while
\* the webhook secret is not configured, is answered 400 and leaves every
\* Purchase row as it was.
C4_UnverifiedWebhookRejected ==
    \A req \in WebhookRequests(StripeEvents) :
        (\/ req.signature = NULL
         \/ ~req.bodyIsBuffer
         \/ req.signature # "good"
         \/ ~env.STRIPE_WEBHOOK_SECRET)
        => /\ stripeWebhookHandler(req).code = 400
           /\ stripeWebhookHandler(req).rows = purchases

\* A PENDING purchase and a succeeded delivery for its session that would
\* mark it PAID if verified; with a bad signature it is refused.
C4_Witness ==
    \E r \in purchases :
        /\ r.status = "PENDING"
        /\ env.STRIPE_WEBHOOK_SECRET
        /\ \E req \in WebhookRequests(StripeEvents) :
              /\ req.event.type \in SucceededTypes
              /\ req.event.object.id = r.stripeSessionId
              /\ req.signature = "bad"
              /\ req.bodyIsBuffer
              /\ stripeWebhookHandler(req).code = 400
              /\ stripeWebhookHandler(req).rows = purchases
              /\ stripeWebhookHandler([req EXCEPT !.signature = "good"]).rows # purchases

\* The observable state of a purchase in reconciliation.
Observable(r) == <<r.status, r.stripePaymentId, r.buyerEmail>>

\* C5: succeeded reconciliation is idempotent.  A purchase is PAID only
\* after a succeeded delivery for its session was applied; any further
\* verified succeeded delivery for that session is accepted and leaves its
\* status, payment id and buyer e-mail as they are.
C5_SucceededIdempotent ==
    \A r \in purchases :
        r.status = "PAID" =>
            \A req \in VerifiedRequests(SucceededTypes) :
                (req.event.object.id = r.stripeSessionId /\ env.STRIPE_SECRET_KEY /\ env.STRIPE_WEBHOOK_SECRET) =>
                    /\ stripeWebhookHandler(req).code = 200
                    /\ Observable(RowOf(stripeWebhookHandler(req).rows, r.id)) = Observable(r)

\* C6: a purchase changes status at most once.  A step never changes the
\* status of a purchase that is PAID or FAILED.
C6_StatusChangesOnce ==
    [][\A r \in purchases :
          r.status \in {"PAID", "FAILED"} =>
              \E r2 \in purchases' : r2.id = r.id /\ r2.status = r.status]_vars

-----------------------------------------------------------------------------
(* Properties of access grants *)

\* The credentials that carry the one token t, in each of the three places.
CredentialsCarrying(t) ==
    { c \in Credentials : getPurchaseTokenFromRequest(c) = t }

\* The grants issued so far for a purchase id that have not expired.
LiveGrants(purchaseId) ==
    { signPurchaseAccessToken(purchaseId, iat) : iat \in {u \in ClockTimes : u <= now} }
    \cap { t \in Tokens : now < t.exp }

\* C2: a grant issued for purchase B, correctly signed and unexpired, does
\* not verify for another purchase A, and both download routes of A answer
\* it 401 with no body, wherever the request carries it.
C2_GrantBoundToPurchase ==
    \A A \in PurchaseIds, B \in PurchaseIds :
        A # B =>
            \A t \in LiveGrants(B) :
                /\ ~verifyPurchaseAccessToken(A, t)
                /\ \A cred \in CredentialsCarrying(t) :
                      /\ downloadAll([purchaseId |-> A, cred |-> cred]).code = 401
                      /\ downloadAll([purchaseId |-> A, cred |-> cred]).body = NOBODY
                      /\ \A photoId \in PhotoIds :
                            LET out == downloadPhoto([purchaseId |-> A, photoId |-> photoId,
                                                      cred |-> cred])
                            IN out.code = 401 /\ out.body = NOBODY

\* Two PAID purchases A and B with all-photos items and storage configured:
\* B's live grant opens B's bundle and is refused on A's, although A's own
\* grant opens A's.
C2_Witness ==
    \E a \in purchases, b \in purchases :
        /\ a.id # b.id
        /\ a.status = "PAID" /\ b.status = "PAID"
        /\ \E t \in LiveGrants(b.id), cred \in Credentials :
              /\ getPurchaseTokenFromRequest(cred) = t
              /\ downloadAll([purchaseId |-> b.id, cred |-> cred]).code = 200
              /\ downloadAll([purchaseId |-> a.id, cred |-> cred]).code = 401
        /\ \E t \in LiveGrants(a.id), cred \in Credentials :
              /\ getPurchaseTokenFromRequest(cred) = t
              /\ downloadAll([purchaseId |-> a.id, cred |-> cred]).code = 200

\* C7: the session exchange answers 200 only for a session id that resolves
\* to a purchase that is PAID now, and the token it returns is signed for
\* that purchase's id and verifies for it; an unknown session id is answered
\* 404 and a purchase in any other status 402, both without a body.
C7_ExchangeOnlyWhenPaid ==
    \A sessionId \in SessionRequests :
        LET out == sessionExchange(sessionId)
            matching == {r \in purchases : r.stripeSessionId = sessionId}
        IN /\ matching = {} => out.code = 404 /\ out.body = NOBODY
           /\ \A r \in matching :
                 /\ r.status \in {"PENDING", "FAILED", "REFUNDED"} =>
                       out.code = 402 /\ out.body = NOBODY
                 /\ r.status = "PAID" =>
                       /\ out.code = 200
                       /\ out.body.purchase.id = r.id
                       /\ out.body.accessToken.sub = r.id
                       /\ out.body.accessToken.purchaseId = r.id
                       /\ verifyPurchaseAccessToken(r.id, out.body.accessToken)
           /\ out.code = 200 <=> \E r \in matching : r.status = "PAID"
           /\ out.body # NOBODY => out.code = 200

\* A REFUNDED purchase, a PAID one and a session id that names no purchase:
\* 402, 200 with a grant for the paid purchase, and 404.
C7_Witness ==
    \E refunded \in purchases, paid \in purchases :
        /\ refunded.status = "REFUNDED"
        /\ sessionExchange(refunded.stripeSessionId).code = 402
        /\ paid.status = "PAID"
        /\ sessionExchange(paid.stripeSessionId).code = 200
        /\ sessionExchange(paid.stripeSessionId).body.accessToken.purchaseId = paid.id
        /\ \E sessionId \in SessionRequests : sessionExchange(sessionId).code = 404

-----------------------------------------------------------------------------
(* Properties of the delivery gate *)

\* The rows of the store a download request is about.
PaidPurchases(purchaseId) ==
    {r \in purchases : r.id = purchaseId /\ r.status = "PAID"}

\* The request carries a token that verifies for the purchase in its path.
CarriesLiveGrant(req) ==
    LET token == getPurchaseTokenFromRequest(req.cred) IN
    /\ token # NOTOKEN
    /\ token.secret = getPurchaseAccessTokenSecret
    /\ now < token.exp
    /\ token.purchaseId = req.purchaseId

\* C3: a download route returns a signed URL only to a request whose token
\* is signed with the server's secret, has not expired and names the
\* purchase id of the path, and only while the stored purchase is PAID; any
\* other request gets no body.
C3_UrlNeedsGrantAndPaid ==
    /\ \A req \in DownloadPhotoRequests :
          LET out == downloadPhoto(req) IN
          /\ out.code = 200 => CarriesLiveGrant(req) /\ PaidPurchases(req.purchaseId) # {}
          /\ out.body # NOBODY => out.code = 200
    /\ \A req \in DownloadAllRequests :
          LET out == downloadAll(req) IN
          /\ out.code = 200 => CarriesLiveGrant(req) /\ PaidPurchases(req.purchaseId) # {}
          /\ out.body # NOBODY => out.code = 200

\* A purchase that is still PENDING, presented with a live grant for its own
\* id: both routes answer 404 and return no URL.
C3_Witness ==
    \E r \in purchases, ph \in photos :
        /\ r.status = "PENDING"
        /\ hasAllPhotos(r)
        /\ ph.eventId = r.eventId /\ ph.isUploaded /\ ph.status = "PUBLISHED"
        /\ storageConfigured
        /\ \E cred \in Credentials :
              /\ CarriesLiveGrant([purchaseId |-> r.id, cred |-> cred])
              /\ downloadPhoto([purchaseId |-> r.id, photoId |-> ph.id, cred |-> cred]).code = 404
              /\ downloadAll([purchaseId |-> r.id, cred |-> cred]).code = 404

\* C8: the single-photo route returns a URL only if the paid purchase holds
\* an all-photos item or an item for the requested photo id; a request with
\* a live grant for a paid purchase that holds neither is answered 403.
C8_SinglePhotoEntitlement ==
    \A req \in DownloadPhotoRequests :
        LET out == downloadPhoto(req) IN
        /\ out.code = 200 =>
              \E r \in PaidPurchases(req.purchaseId) :
                  \E item \in r.items :
                      \/ item.itemType = PURCHASE_ITEM_ALL_PHOTOS
                      \/ item.photoId = req.photoId
        /\ \A r \in PaidPurchases(req.purchaseId) :
              (/\ CarriesLiveGrant(req)
               /\ \A item \in r.items :
                     item.itemType # PURCHASE_ITEM_ALL_PHOTOS /\ item.photoId # req.photoId)
              => out.code = 403 /\ out.body = NOBODY

\* A paid purchase of one photo: its grant downloads that photo and is
\* answered 403 for another uploaded, published photo of the same event.
C8_Witness ==
    \E r \in purchases, bought \in photos, other \in photos :
        /\ r.status = "PAID"
        /\ r.items = {[itemType |-> PURCHASE_ITEM_SINGLE_PHOTO, photoId |-> bought.id]}
        /\ other.id # bought.id
        /\ other.eventId = r.eventId /\ other.isUploaded /\ other.status = "PUBLISHED"
        /\ \E cred \in Credentials :
              /\ CarriesLiveGrant([purchaseId |-> r.id, cred |-> cred])
              /\ downloadPhoto([purchaseId |-> r.id, photoId |-> bought.id, cred |-> cred]).code = 200
              /\ downloadPhoto([purchaseId |-> r.id, photoId |-> other.id, cred |-> cred]).code = 403

\* C9: the single-photo route returns a URL only for a photo that belongs
\* to the purchase's event and is uploaded; with a live grant and an
\* all-photos purchase, a photo of another event, a photo not yet uploaded
\* or an unknown photo id is answered 404 "Photo not found.".
C9_PhotoOfEventAndUploaded ==
    \A req \in DownloadPhotoRequests :
        LET out == downloadPhoto(req) IN
        /\ out.code = 200 =>
              \E r \in PaidPurchases(req.purchaseId), ph \in photos :
                  /\ ph.id = req.photoId
                  /\ ph.eventId = r.eventId
                  /\ ph.isUploaded
                  /\ out.body.photoId = ph.id
                  /\ out.body.downloadUrl.key = ph.storageKey
        /\ \A r \in PaidPurchases(req.purchaseId) :
              (/\ CarriesLiveGrant(req)
               /\ hasAllPhotos(r)
               /\ ~\E ph \in photos :
                     ph.id = req.photoId /\ ph.eventId = r.eventId /\ ph.isUploaded)
              => /\ out.code = 404
                 /\ out.error = "Photo not found."
                 /\ out.body = NOBODY

\* A paid all-photos purchase of one event, an uploaded photo of the other
\* event and a photo of its own event that is not uploaded: 404 for both.
C9_Witness ==
    \E r \in purchases, foreign \in photos, pending \in photos :
        /\ r.status = "PAID"
        /\ hasAllPhotos(r)
        /\ storageConfigured
        /\ foreign.eventId # r.eventId /\ foreign.isUploaded
        /\ pending.eventId = r.eventId /\ ~pending.isUploaded
        /\ \E cred \in Credentials :
              /\ CarriesLiveGrant([purchaseId |-> r.id, cred |-> cred])
              /\ downloadPhoto([purchaseId |-> r.id, photoId |-> foreign.id, cred |-> cred]).error
                    = "Photo not found."
              /\ downloadPhoto([purchaseId |-> r.id, photoId |-> pending.id, cred |-> cred]).error
                    = "Photo not found."

\* The photos of an event that are uploaded and published now.
PublishedNow(eventId) ==
    {ph \in photos : ph.eventId = eventId /\ ph.isUploaded /\ ph.status = "PUBLISHED"}

\* C10: the bundle route answers 200 only for a paid purchase that holds an
\* all-photos item, and its files are then exactly one entry, with that
\* photo's storage key, for each photo of the purchase's event that is
\* uploaded and PUBLISHED at the time of the request; count is their number.
C10_BundleIsPublishedNow ==
    \A req \in DownloadAllRequests :
        LET out == downloadAll(req) IN
        out.code = 200 =>
            \E r \in PaidPurchases(req.purchaseId) :
                /\ \E item \in r.items : item.itemType = PURCHASE_ITEM_ALL_PHOTOS
                /\ {f.photoId : f \in out.body.files} = {ph.id : ph \in PublishedNow(r.eventId)}
                /\ out.body.count = Cardinality(PublishedNow(r.eventId))
                /\ \A f \in out.body.files :
                      \E ph \in PublishedNow(r.eventId) :
                          f.photoId = ph.id /\ f.downloadUrl.key = ph.storageKey

\* A paid all-photos purchase whose event has one published photo and one
\* uploaded draft: the bundle holds the published photo alone.
C10_Witness ==
    \E r \in purchases, published \in photos, draft \in photos :
        /\ r.status = "PAID"
        /\ hasAllPhotos(r)
        /\ published.eventId = r.eventId /\ published.isUploaded /\ published.status = "PUBLISHED"
        /\ draft.eventId = r.eventId /\ draft.isUploaded /\ draft.status = "DRAFT"
        /\ \E cred \in Credentials :
              LET out == downloadAll([purchaseId |-> r.id, cred |-> cred]) IN
              /\ out.code = 200
              /\ out.body.count = 1
              /\ {f.photoId : f \in out.body.files} = {published.id}

\* The first step of download authorization that fails for a request, in
\* the order grant, paid purchase, entitlement, photo ("none" when all pass).
FailingStep(req) ==
    IF ~CarriesLiveGrant(req) THEN "grant"
    ELSE IF PaidPurchases(req.purchaseId) = {} THEN "paid"
    ELSE LET r == CHOOSE x \in PaidPurchases(req.purchaseId) : TRUE IN
         IF \A item \in r.items :
               item.itemType # PURCHASE_ITEM_ALL_PHOTOS /\ item.photoId # req.photoId
         THEN "entitlement"
         ELSE IF ~\E ph \in photos :
                    ph.id = req.photoId /\ ph.eventId = r.eventId /\ ph.isUploaded
         THEN "photo"
         ELSE "none"

\* The answers of the single-photo route, each with the step its request
\* fails at: <<step, status, message, whether a body is sent>>.
Denials ==
    { LET out == downloadPhoto(req)
      IN <<FailingStep(req), out.code, out.error, out.body # NOBODY>> :
        req \in DownloadPhotoRequests }

DenialsAt(step) == { <<d[2], d[3]>> : d \in {x \in Denials : x[1] = step} }

\* C11: each failing step of download authorization has its own denial.
\* The first failing step, in the order grant, paid purchase, entitlement,
\* photo, decides the answer: 401, 404, 403 and 404 with no body, and no
\* answer (status and message) given for one step is given for another.
C11_DenialPerStep ==
    LET all == Denials
        at(step) == { <<d[2], d[3]>> : d \in {x \in all : x[1] = step} }
    IN /\ \A d \in all :
             /\ d[1] = "grant" => d[2] = 401 /\ ~d[4]
             /\ d[1] = "paid" => d[2] = 404 /\ ~d[4]
             /\ d[1] = "entitlement" => d[2] = 403 /\ ~d[4]
             /\ d[1] = "photo" => d[2] = 404 /\ ~d[4]
       /\ \A s1 \in {"grant", "paid", "entitlement", "photo"} :
             /\ Cardinality(at(s1)) <= IF s1 = "grant" THEN 2 ELSE 1
             /\ \A s2 \in {"grant", "paid", "entitlement", "photo"} \ {s1} :
                   at(s1) \cap at(s2) = {}

\* A paid all-photos purchase: requests fail at the grant, at the paid
\* purchase (another purchase id) and at the photo (a photo of the other
\* event), and the two 404 answers differ.
C11_Witness ==
    /\ \E r \in purchases : r.status = "PAID" /\ hasAllPhotos(r)
    /\ DenialsAt("grant") # {}
    /\ DenialsAt("paid") # {}
    /\ DenialsAt("photo") # {}
    /\ \E a \in DenialsAt("paid"), b \in DenialsAt("photo") : a[1] = b[1] /\ a[2] # b[2]

-----------------------------------------------------------------------------
(* Properties of selfie search *)

\* A search was made and the configured provider answered it without a fault.
Answered ==
    /\ search # NOSEARCH
    /\ getFaceSearchConfig # NULL
    /\ search.input.run.thrower = NULL

\* The photos of the searched event that are uploaded and published.
EligiblePhotos(eventId) ==
    {ph \in photos : ph.eventId = eventId /\ ph.isUploaded /\ ph.status = "PUBLISHED"}

\* The similarities the provider reported for a photo: those of the entries
\* that carry a numeric similarity and a handle recorded for the photo.
ReportedFor(photoId, faceMatches) ==
    { faceMatches[i].Similarity :
        i \in { j \in 1..Len(faceMatches) :
                  /\ IsNumber(faceMatches[j])
                  /\ \E f \in faces :
                        f.photoId = photoId /\ f.externalId = faceMatches[j].FaceId } }

Max(S) == CHOOSE x \in S : \A y \in S : y <= x

\* C12: whatever the provider returns, the matches of a search on event E
\* name each photo at most once, and only photos of E that are uploaded and
\* PUBLISHED.
C12_MatchesDistinctAndEligible ==
    search # NOSEARCH =>
        LET matches == search.result.matches IN
        /\ \A i \in 1..Len(matches), j \in 1..Len(matches) :
              matches[i].photo.id = matches[j].photo.id => i = j
        /\ \A i \in 1..Len(matches) :
              \E ph \in EligiblePhotos(search.input.eventId) : ph.id = matches[i].photo.id

\* The provider returned the handle of a published photo of E and the handle
\* of the other event's published photo; the result is the photo of E alone.
C12_Witness ==
    /\ Answered
    /\ \E i \in 1..Len(search.input.run.FaceMatches) :
          search.input.run.FaceMatches[i].FaceId = "f3"
    /\ FaceRow("ph3", "f3") \in faces
    /\ FaceRow("ph1", "f1") \in faces
    /\ search.result.status = "ok"
    /\ Len(search.result.matches) = 1
    /\ search.result.matches[1].photo.id = "ph1"

\* C13: the matches are in non-increasing order of similarity, there are at
\* most limit of them, and no eligible photo left out was reported with a
\* higher similarity than a photo returned.
C13_SortedAndLimited ==
    search # NOSEARCH =>
        LET matches == search.result.matches
            returned == {matches[i].photo.id : i \in 1..Len(matches)}
        IN /\ Len(matches) <= search.input.limit
           /\ \A i \in 1..Len(matches), j \in 1..Len(matches) :
                 i < j => matches[i].similarity >= matches[j].similarity
           /\ \A ph \in EligiblePhotos(search.input.eventId) :
                 ph.id \notin returned =>
                     \A x \in ReportedFor(ph.id, search.input.run.FaceMatches) :
                         \A i \in 1..Len(matches) : x <= matches[i].similarity

\* Two photos qualify with different similarities, the lower one reported
\* first, and the limit is 1: the match is the photo with the higher one.
C13_Witness ==
    /\ Answered
    /\ search.input.limit = 1
    /\ search.input.run.FaceMatches =
          <<[FaceId |-> "f2", Similarity |-> 870], [FaceId |-> "f1", Similarity |-> 912]>>
    /\ {"ph1", "ph2"} \subseteq {ph.id : ph \in EligiblePhotos(search.input.eventId)}
    /\ FaceRow("ph1", "f1") \in faces /\ FaceRow("ph2", "f2") \in faces
    /\ Len(search.result.matches) = 1
    /\ search.result.matches[1].photo.id = "ph1"
    /\ search.result.matches[1].similarity = 912

\* C14: every handle returned with a numeric similarity is kept with the
\* maximum reported for it, and each photo carries the maximum over the
\* handles recorded for it: every match has the highest similarity reported
\* for its photo, and when the limit leaves room every eligible photo the
\* provider reported appears among the matches.
C14_MaximumPerHandleAndPhoto ==
    Answered =>
        LET matches == search.result.matches
            faceMatches == search.input.run.FaceMatches
            reported == {ph \in EligiblePhotos(search.input.eventId) :
                            ReportedFor(ph.id, faceMatches) # {}}
        IN /\ \A i \in 1..Len(matches) :
                 /\ ReportedFor(matches[i].photo.id, faceMatches) # {}
                 /\ matches[i].similarity = Max(ReportedFor(matches[i].photo.id, faceMatches))
           /\ Cardinality(reported) <= search.input.limit =>
                 \A ph \in reported : \E i \in 1..Len(matches) : matches[i].photo.id = ph.id

\* C15: no_face_detected is returned exactly when SearchFacesByImage threw
\* InvalidParameterException, and no_matches when the provider answered and
\* returned no match or no handle recorded for an eligible photo of the event.
C15_NoFaceVersusNoMatches ==
    (search # NOSEARCH /\ getFaceSearchConfig # NULL) =>
        LET run == search.input.run
            resolved == {ph \in EligiblePhotos(search.input.eventId) :
                            \E i \in 1..Len(run.FaceMatches), f \in faces :
                                f.photoId = ph.id /\ f.externalId = run.FaceMatches[i].FaceId}
        IN /\ search.result.status = "no_face_detected"
                <=> (run.thrower = "SearchFacesByImage" /\ run.name = "InvalidParameterException")
           /\ (run.thrower = NULL /\ resolved = {}) => search.result.status = "no_matches"

\* C16: a selfie search leaves the Photo, FaceEmbedding and Purchase tables
\* as they were, and with no FaceEmbedding row, no eligible photo or no
\* provider match it returns no_matches with an empty list.
C16_PureReadAndEmptyStages ==
    search # NOSEARCH =>
        /\ search.result.photos = photos
        /\ search.result.faces = faces
        /\ search.result.purchases = purchases
        /\ (/\ Answered
            /\ \/ faces = {}
               \/ EligiblePhotos(search.input.eventId) = {}
               \/ search.input.run.FaceMatches = <<>>)
           => search.result.status = "no_matches" /\ search.result.matches = <<>>

-----------------------------------------------------------------------------
(* Properties of face indexing *)

\* The FaceEmbedding rows of a photo for the provider.
FaceRecordsOf(photoId) ==
    {f \in faces : f.photoId = photoId /\ f.provider = FACE_PROVIDER}

\* The index calls that returned.
Returned == {c \in CallSlots : calls[c].pc = "done" /\ calls[c].status # NULL}

\* C17: with index calls made one after the other, no photo ever has two
\* FaceEmbedding rows; once the latest call returned "indexed" its photo has
\* exactly the row with the handle that call detected, and once it returned
\* "no_face_detected" its photo has no row.
C17_SequentialReindexIdempotent ==
    /\ \A ph \in photos : Cardinality(FaceRecordsOf(ph.id)) <= 1
    /\ \A c \in Returned :
          /\ calls[c].status = "indexed" =>
                FaceRecordsOf(calls[c].photoId)
                    = {FaceRow(calls[c].photoId, calls[c].faceRecords[1])}
          /\ calls[c].status = "no_face_detected" => FaceRecordsOf(calls[c].photoId) = {}

\* A photo that had a row was indexed again and has the new handle alone.
C17_Witness ==
    \E c \in Returned :
        /\ calls[c].status = "indexed"
        /\ calls[c].existing # {}
        /\ calls[c].faceRecords[1] \notin calls[c].existing
        /\ FaceRecordsOf(calls[c].photoId)
              = {FaceRow(calls[c].photoId, calls[c].faceRecords[1])}

\* C18: in every reachable state, overlapping index calls included, each
\* photo has at most one FaceEmbedding row for the provider.
C18_AtMostOneFaceRecord ==
    \A ph \in photos : Cardinality(FaceRecordsOf(ph.id)) <= 1

\* C19: when IndexFaces returned more than one face and deleting the extra
\* faces failed, the call still creates the row of the first face and
\* returns "indexed" (unless the store fails to create the row).
C19_ExtrasDeletionNotFatal ==
    \A c \in Returned :
        (/\ "DeleteExtraFaces" \in calls[c].faults
         /\ "faceEmbedding.create" \notin calls[c].faults)
        => /\ calls[c].status = "indexed"
           /\ FaceRow(calls[c].photoId, calls[c].faceRecords[1]) \in faces

IndexStatuses == {"indexed", "no_face_detected", "disabled", "error"}
SelfieSearchStatuses == {"ok", "no_matches", "no_face_detected", "disabled", "error"}

\* The call of the recorded search that threw, NULL when none did.
SearchThrew ==
    LET run == search.input.run IN
    IF getFaceSearchConfig = NULL THEN NULL
    ELSE IF run.thrower = "ensureCollection" /\ ~search.result.collectionReady
    THEN run.thrower
    ELSE IF run.thrower \in {"SearchFacesByImage", "faceEmbedding.findMany"}
    THEN run.thrower
    ELSE NULL

-----------------------------------------------------------------------------
(* Properties of the realtime bus *)

\* The listeners registered on the channel of an event.
SubscribedTo(eventSlug) ==
    {registered[i].id : i \in {j \in 1..Len(registered) :
                                  registered[j].channel = getChannel(eventSlug)}}

\* C21: a publish for an event invokes every listener subscribed to its
\* channel exactly once, with the type, event and photo published, and
\* invokes no other listener.
C21_PublishReachesSubscribers ==
    \A input \in PublishInputs :
        LET after == publishEventUpdate(Bus, input)
            payload == [type |-> input.type, eventSlug |-> input.eventSlug,
                        photoId |-> input.photoId, timestamp |-> now]
        IN \A l \in ListenerIds :
              after.received[l] =
                  IF l \in SubscribedTo(input.eventSlug)
                  THEN Append(received[l], payload)
                  ELSE received[l]

\* One listener on each channel; only the one on "wedding" has received the
\* publish for "wedding".
C21_Witness ==
    /\ SubscribedTo("wedding") = {"l1"}
    /\ SubscribedTo("gala") = {"l2"}
    /\ Len(received["l1"]) = 1
    /\ received["l1"][1].eventSlug = "wedding"
    /\ received["l2"] = <<>>

\* C22: once a listener's unsubscribe has returned the listener is not
\* invoked again: it has received what it had received at that moment.
C22_NoDeliveryAfterUnsubscribe ==
    \A l \in ListenerIds :
        subs[l].state = "off" => Len(received[l]) = subs[l].offAt

\* C23: a listener is invoked only by a publish made while it is
\* subscribed: whenever a listener receives something it was subscribed
\* before the step, and it receives one payload, stamped with the time of
\* the step.  Subscribing delivers nothing.
C23_NoBacklog ==
    [][\A l \in ListenerIds :
          received'[l] # received[l] =>
              /\ subs[l].state = "on"
              /\ Len(received'[l]) = Len(received[l]) + 1
              /\ SubSeq(received'[l], 1, Len(received[l])) = received[l]
              /\ received'[l][Len(received'[l])].timestamp = now]_vars

\* l2 is subscribed to the channel on which l1 received a payload earlier,
\* and has received nothing.
C23_Witness ==
    /\ SubscribedTo("wedding") = {"l1", "l2"}
    /\ Len(received["l1"]) = 1
    /\ received["l1"][1].timestamp < now
    /\ received["l2"] = <<>>

\* C25: once the client of a stream connection has disconnected, the
\* connection's listener is not subscribed, its keep-alive timer is stopped
\* and nothing was written to its response after the disconnect.
C25_StreamTornDownOnDisconnect ==
    \A id \in ListenerIds :
        (conns[id].pc \in {"streaming", "ended"} /\ ~conns[id].connected) =>
            /\ subs[id].state # "on"
            /\ ~conns[id].keepAliveTimer
            /\ ~conns[id].lateWrite

-----------------------------------------------------------------------------
(* Properties of the photographer routes on the bus *)

ExpectedEventType ==
    [complete |-> "photo.uploaded", publish |-> "photo.published",
     unpublish |-> "photo.unpublished"]

PhotoOf(rows, photoId) == CHOOSE ph \in rows : ph.id = photoId

SlugOfPhoto(photoId) ==
    (CHOOSE e \in Events : e.id = PhotoOf(photos, photoId).eventId).slug

\* The state a route writes before it broadcasts.
StateWritten(route, ph) ==
    CASE route = "complete" -> ph.isUploaded
      [] route = "publish" -> ph.isUploaded /\ ph.status = "PUBLISHED"
      [] OTHER -> ph.status = "DRAFT"

\* From before to after, the listeners of the photo's event have received
\* exactly one update of the route's type for the photo, the others none.
OneBroadcast(route, photoId, before, after) ==
    \A l \in ListenerIds :
        IF l \in SubscribedTo(SlugOfPhoto(photoId))
        THEN /\ Len(after[l]) = Len(before[l]) + 1
             /\ SubSeq(after[l], 1, Len(before[l])) = before[l]
             /\ after[l][Len(after[l])].type = ExpectedEventType[route]
             /\ after[l][Len(after[l])].eventSlug = SlugOfPhoto(photoId)
             /\ after[l][Len(after[l])].photoId = photoId
        ELSE after[l] = before[l]

\* An accepted request leaves the photo in its new state; where it awaits
\* no face call it has broadcast exactly once, and where it awaits one it
\* has broadcast nothing yet.
BroadcastOfRequest ==
    \A route \in PhotoRoutes, req \in PhotoRequests :
        LET r == photoRoute(route, req) IN
        Accepted(r) =>
            /\ StateWritten(route, PhotoOf(r.rows, req.photoId))
            /\ IF r.call.pc = "done"
               THEN OneBroadcast(route, req.photoId, received, r.bus.received)
               ELSE /\ r.bus = Bus
                    /\ r.call.route = route
                    /\ r.call.photoId = req.photoId

\* The step in which the awaited indexing of a route returns broadcasts
\* exactly once, and no other step of an awaited call broadcasts.
BroadcastOfReturn ==
    \A c \in CallSlots :
        c \in InFlight /\ calls'[c] # calls[c] =>
            IF calls'[c].pc = "done"
            THEN /\ OneBroadcast(calls[c].route, calls[c].photoId, received, received')
                 /\ calls[c].route = "complete" =>
                        PhotoOf(photos, calls[c].photoId).isUploaded
            ELSE received' = received

\* C24: each successful upload-complete, publish and unpublish request
\* broadcasts exactly one event of the matching type (photo.uploaded,
\* photo.published, photo.unpublished) on the channel of the photo's event,
\* and only after the photo's new state is written.
C24_OneBroadcastAfterWrite == [](BroadcastOfRequest) /\ [][BroadcastOfReturn]_vars

\* A publish request has been broadcast to the listener of the photo's event
\* and to no other, and an unpublish request of the other event likewise.
C24_Witness ==
    /\ Len(received["l1"]) = 2
    /\ received["l1"][1].type = "photo.uploaded"
    /\ received["l1"][2].type = "photo.published"
    /\ PhotoOf(photos, "ph1").status = "PUBLISHED"
    /\ Len(received["l2"]) = 1
    /\ received["l2"][1].type = "photo.unpublished"

-----------------------------------------------------------------------------
(* Properties of photographer authorization *)

\* A header that carries a token the server signed, unexpired, with a subject.
ValidBearer(h) ==
    /\ h.scheme = "Bearer "
    /\ h.token # NOTOKEN
    /\ h.token.secret = getJwtSecret
    /\ now < h.token.exp
    /\ h.token.sub \in Users

OwnsEvent(user, eventId) == \E e \in Events : e.id = eventId /\ e.ownerId = user

InEvent(photoId, eventId) == \E ph \in photos : ph.id = photoId /\ ph.eventId = eventId

\* The request has modified no photo, started no face indexing and
\* published nothing.
Untouched(r) == r.rows = photos /\ r.call = IDLE /\ r.bus = Bus

\* C30: the photo routes act only on requests with a valid bearer token whose
\* subject owns the event and whose photo belongs to it: without a valid
\* bearer the answer is 401, for a non-owner or a photo of another event it
\* is 404, and in these cases no photo is modified, no face is indexed and
\* no realtime event is published.
C30_OnlyOwnerChangesPhotos ==
    \A route \in PhotoRoutes, h \in AuthorizationHeaders,
       eventId \in {e.id : e \in Events}, photoId \in PhotoIds :
        LET req == [authUser |-> requireAuth(h), eventId |-> eventId, photoId |-> photoId]
            r == photoRoute(route, req)
        IN
        /\ ~ValidBearer(h) => r.code = 401 /\ Untouched(r)
        /\ ValidBearer(h) /\ ~(OwnsEvent(h.token.sub, eventId) /\ InEvent(photoId, eventId))
               => r.code = 404 /\ Untouched(r)
        /\ ~Untouched(r)
               => ValidBearer(h) /\ OwnsEvent(h.token.sub, eventId) /\ InEvent(photoId, eventId)

\* The owner has published photo ph1 and its listener has heard of it; the
\* other photographer's valid token is refused on that photo with 404, and
\* the owner's token on the other event's photo likewise.
C30_Witness ==
    /\ PhotoOf(photos, "ph1").status = "PUBLISHED"
    /\ Len(received["l1"]) = 2
    /\ \E h \in AuthorizationHeaders :
        /\ ValidBearer(h)
        /\ h.token.sub = "u2"
        /\ photoRoute("unpublish", [authUser |-> requireAuth(h), eventId |-> "e1",
                                    photoId |-> "ph1"]).code = 404
    /\ \E h \in AuthorizationHeaders :
        /\ ValidBearer(h)
        /\ h.token.sub = "u1"
        /\ photoRoute("unpublish", [authUser |-> requireAuth(h), eventId |-> "e1",
                                    photoId |-> "ph2"]).code = 404

-----------------------------------------------------------------------------
(* Properties of checkout *)

ProviderSessions == {[id |-> i] : i \in SessionIds}

\* C26: at most one purchase exists per payment-session id; creating a
\* purchase with a session id already in use fails with a conflict (409) and
\* leaves the existing purchases unchanged.
C26_OnePurchasePerSession ==
    /\ \A p, q \in purchases : p.stripeSessionId = q.stripeSessionId => p = q
    /\ \A req \in CheckoutRequests, session \in ProviderSessions :
        LET r == checkoutSessionWith(req, session) IN
        r.session # NOSESSION /\ (\E p \in purchases : p.stripeSessionId = session.id)
            => r.code = 409 /\ r.rows = purchases

\* A paid purchase holds session cs_1, and a checkout for which the provider
\* answers cs_1 again is refused with 409.
C26_Witness ==
    /\ \E p \in purchases : p.stripeSessionId = "cs_1" /\ p.status = "PAID"
    /\ Cardinality(purchases) < MaxPurchases
    /\ \E req \in CheckoutRequests :
        checkoutSessionWith(req, [id |-> "cs_1"]).code = 409

OneItem(p, single) ==
    /\ Cardinality(p.items) = 1
    /\ \A it \in p.items :
        /\ it.itemType = (IF single THEN PURCHASE_ITEM_SINGLE_PHOTO ELSE PURCHASE_ITEM_ALL_PHOTOS)
        /\ it.photoId # NULL <=> single

\* The photo is uploaded, PUBLISHED and in the event of the slug.
Purchasable(photoId, eventSlug) ==
    \E ph \in photos, e \in Events :
        /\ ph.id = photoId
        /\ ph.isUploaded
        /\ ph.status = "PUBLISHED"
        /\ e.id = ph.eventId
        /\ e.slug = eventSlug

\* C27: every purchase created by checkout starts PENDING with exactly one
\* item, whose photo reference is set exactly when the kind is single-photo;
\* a single-photo checkout is accepted only for a photo that is uploaded,
\* PUBLISHED and in the requested event, and otherwise creates no provider
\* session and no purchase.
C27_CheckoutCreatesPendingSingleItem ==
    /\ \A p \in purchases : OneItem(p, \E it \in p.items : it.photoId # NULL)
    /\ \A req \in CheckoutRequests, session \in ProviderSessions \cup {NOSESSION} :
        LET r == checkoutSessionWith(req, session)
            single == req.productType = "single"
        IN
        /\ \A p \in r.rows \ purchases :
            /\ p.status = "PENDING"
            /\ OneItem(p, single)
            /\ single => \A it \in p.items : it.photoId = req.photoId
        /\ single /\ ~Purchasable(req.photoId, req.eventSlug)
               => /\ r.session = NOSESSION
                  /\ r.rows = purchases
                  /\ r.code \in {400, 404, 503}

\* A single-photo purchase of ph1 exists; ph1 has since been unpublished and
\* a single-photo checkout for it is refused, while an all-photos checkout
\* of the event is created PENDING.
C27_Witness ==
    /\ \E p \in purchases : \E it \in p.items : it.photoId = "ph1"
    /\ ~Purchasable("ph1", "wedding")
    /\ Cardinality(purchases) < MaxPurchases
    /\ \E req \in CheckoutRequests :
        /\ req.productType = "single" /\ req.photoId = "ph1" /\ req.eventSlug = "wedding"
        /\ checkoutSessionWith(req, [id |-> "cs_2"]).code = 404
    /\ \E req \in CheckoutRequests :
        /\ req.productType = "all" /\ req.eventSlug = "wedding"
        /\ checkoutSessionWith(req, [id |-> "cs_2"]).code = 201

-----------------------------------------------------------------------------
(* Properties of the grant's sources *)

\* A fresh grant of each of two purchases, and the empty string.
GrantTokens ==
    { signPurchaseAccessToken(PurchaseIdPool[i], now) : i \in 1..2 } \cup {EMPTYTOKEN}

\* Requests with any combination of the three sources.
PrecedenceCredentials ==
    [authorization : {NOAUTH} \cup [scheme : {"Bearer ", "Basic "}, token : GrantTokens],
     query : GrantTokens \cup {NOTOKEN},
     xPurchaseToken : GrantTokens \cup {NOTOKEN}]

\* The first source the request carries, in the order of precedence.
FirstPresent(cred) ==
    IF cred.authorization.scheme = "Bearer " THEN "authorization"
    ELSE IF cred.query # NOTOKEN THEN "query"
    ELSE IF cred.xPurchaseToken # NOTOKEN THEN "xPurchaseToken"
    ELSE "none"

\* The request with every source but src removed.
OnlySource(cred, src) ==
    [authorization |-> IF src = "authorization" THEN cred.authorization ELSE NOAUTH,
     query |-> IF src = "query" THEN cred.query ELSE NOTOKEN,
     xPurchaseToken |-> IF src = "xPurchaseToken" THEN cred.xPurchaseToken ELSE NOTOKEN]

\* C28: the grant of a download request is taken from the first present
\* source in the order bearer header, token query parameter,
\* x-purchase-token header; the lower sources are not consulted (the answer
\* is that of the request carrying the first present source alone), and
\* with no source present the answer is 401.
C28_GrantSourcePrecedence ==
    \A cred \in PrecedenceCredentials, purchaseId \in PurchaseIds :
        LET src == FirstPresent(cred)
            only == OnlySource(cred, src)
        IN
        /\ getPurchaseTokenFromRequest(cred) =
               (CASE src = "authorization" -> cred.authorization.token
                  [] src = "query" -> cred.query
                  [] src = "xPurchaseToken" -> cred.xPurchaseToken
                  [] OTHER -> NOTOKEN)
        /\ downloadAll([purchaseId |-> purchaseId, cred |-> cred])
               = downloadAll([purchaseId |-> purchaseId, cred |-> only])
        /\ src = "none" =>
               downloadAll([purchaseId |-> purchaseId, cred |-> cred]).code = 401
        /\ \A photoId \in PhotoIds :
            /\ downloadPhoto([purchaseId |-> purchaseId, photoId |-> photoId, cred |-> cred])
                   = downloadPhoto([purchaseId |-> purchaseId, photoId |-> photoId,
                                    cred |-> only])
            /\ src = "none" =>
                   downloadPhoto([purchaseId |-> purchaseId, photoId |-> photoId,
                                  cred |-> cred]).code = 401

\* The bundle of a paid purchase is delivered on the bearer grant although
\* the query parameter carries another purchase's grant, refused on another
\* purchase's bearer grant although the query parameter and the
\* x-purchase-token header carry the right one, and delivered on the
\* x-purchase-token header when the Authorization header is not a bearer.
C28_Witness ==
    LET good == signPurchaseAccessToken(PurchaseIdPool[1], now)
        other == signPurchaseAccessToken(PurchaseIdPool[2], now)
    IN
    /\ now > 0
    /\ downloadAll([purchaseId |-> PurchaseIdPool[1],
                    cred |-> [authorization |-> [scheme |-> "Bearer ", token |-> good],
                              query |-> other, xPurchaseToken |-> NOTOKEN]]).code = 200
    /\ downloadAll([purchaseId |-> PurchaseIdPool[1],
                    cred |-> [authorization |-> [scheme |-> "Bearer ", token |-> other],
                              query |-> good, xPurchaseToken |-> good]]).code = 401
    /\ downloadAll([purchaseId |-> PurchaseIdPool[1],
                    cred |-> [authorization |-> [scheme |-> "Basic ", token |-> other],
                              query |-> NOTOKEN, xPurchaseToken |-> good]]).code = 200
    /\ downloadAll([purchaseId |-> PurchaseIdPool[1],
                    cred |-> [authorization |-> NOAUTH,
                              query |-> EMPTYTOKEN, xPurchaseToken |-> good]]).code = 401

-----------------------------------------------------------------------------
(* Properties of the public gallery *)

ListedIds(eventSlug) == {p.id : p \in listEventPhotos(eventSlug).body.photos}

\* C29: the public gallery listing of an event returns exactly the photos
\* of that event that are uploaded and PUBLISHED at request time; a draft
\* photo and a photo whose upload is not complete never appear in it.
C29_GalleryListsPublishedOnly ==
    \A eventSlug \in EventSlugs :
        listEventPhotos(eventSlug).code = 200 =>
            /\ ListedIds(eventSlug) =
                   {ph.id : ph \in {q \in photos : /\ Purchasable(q.id, eventSlug)}}
            /\ \A p \in listEventPhotos(eventSlug).body.photos :
                /\ p.status = "PUBLISHED"
                /\ \E e \in Events : e.slug = eventSlug /\ e.id = p.eventId

\* The event holds a published photo, which is listed, and an uploaded photo
\* that is a draft, which is not.
C29_Witness ==
    \E ph, draft \in photos :
        /\ ph.eventId = "e1" /\ ph.isUploaded /\ ph.status = "PUBLISHED"
        /\ draft.eventId = "e1" /\ draft.isUploaded /\ draft.status = "DRAFT"
        /\ listEventPhotos("wedding").code = 200
        /\ ListedIds("wedding") = {ph.id}

-----------------------------------------------------------------------------
(* Properties of ensureCollection under concurrent first callers *)

\* The calls that went through ensureCollection's DescribeCollection.
FirstCallers ==
    {c \in CallSlots : calls[c] # IDLE /\ "DescribeCollection" \in calls[c].sent}

-----------------------------------------------------------------------------
(* Properties of find-me validation and of the search command *)

\* C32: a find-me request without a selfie file is answered 400 before any
\* event lookup or matcher call, whatever the event slug; the limit is
\* accepted only as an integer in 1..50 and is 24 when absent.
C32_FindMeValidation ==
    /\ \A req \in FindMeRequests :
        LET r == findMe(req) IN
        /\ req.file = NOFILE =>
               r.code = 400 /\ ~r.lookedUp /\ r.matcher = NOMATCHERCALL
        /\ r.matcher # NOMATCHERCALL =>
               /\ r.matcher.limit \in 1..50
               /\ req.limit = NULL => r.matcher.limit = 24
               /\ req.limit # NULL => Number(req.limit) = Finite(10 * r.matcher.limit)
        /\ req.limit \in {"", "0", "2.5", "51", "abc"} =>
               r.code = 400 /\ r.matcher = NOMATCHERCALL
    /\ search # NOSEARCH /\ search.input.file = NOFILE =>
           search.code = 400 /\ search.command = NOCOMMAND

\* A request without a file for an event that does not exist was answered
\* 400, not 404.
C32_Witness ==
    /\ search # NOSEARCH
    /\ search.input.file = NOFILE
    /\ search.input.eventSlug = "no-such-event"
    /\ search.input.limit = NULL
    /\ search.code = 400

\* C33: the similarity threshold sent to the provider is within [0, 100]:
\* 80 when the override is unset or does not convert to a finite number,
\* the override clamped to [0, 100] otherwise; the provider is asked for at
\* most 50 candidates.  Thresholds are in tenths.
C33_ThresholdClampedAndCeiling ==
    /\ \A override \in ThresholdOverrides :
        LET t == getMatchThreshold(override)
            n == Number(IF override = NULL THEN "80" ELSE override)
        IN
        /\ t \in 0..1000
        /\ override = NULL \/ n.kind # "finite" => t = 800
        /\ override # NULL /\ n.kind = "finite" =>
               /\ n.tenths < 0 => t = 0
               /\ n.tenths > 1000 => t = 1000
               /\ n.tenths \in 0..1000 => t = n.tenths
    /\ search # NOSEARCH /\ search.command # NOCOMMAND =>
           /\ search.command.MaxFaces <= 50
           /\ search.command.FaceMatchThreshold \in 0..1000
           /\ search.command.FaceMatchThreshold = getMatchThreshold(search.override)

\* A search was answered with the override 150: the provider was asked for
\* threshold 100 and at most 50 faces.
C33_Witness ==
    /\ search # NOSEARCH
    /\ search.override = "150"
    /\ search.code = 200
    /\ search.command = [MaxFaces |-> 50, FaceMatchThreshold |-> 1000]

-----------------------------------------------------------------------------
(* Properties of checkout racing its webhook *)

\* C34: once checkout has created provider session S and a verified
\* succeeded webhook for S was delivered, the purchase for S becomes PAID,
\* in every interleaving of the webhook with the insertion of the purchase:
\* when the checkout has answered and the webhook was acknowledged, the
\* purchase of the session is PAID.
C34_PaidAfterSucceededWebhook ==
    \A c \in CallSlots :
        calls[c].pc = "done" /\ calls[c].delivered =>
            \E p \in purchases :
                p.stripeSessionId = calls[c].session.id /\ p.status = "PAID"

-----------------------------------------------------------------------------
(* Properties of the single-photo download *)

\* C35: the single-photo download endpoint issues no signed URL for a photo
\* that is a draft at the time of the request, whether the purchase covers
\* it through an all-photos item or through a single-photo item.
C35_NoDownloadOfDraftPhoto ==
    \A req \in DownloadPhotoRequests :
        downloadPhoto(req).code = 200 =>
            \A ph \in photos : ph.id = req.photoId => ph.status = "PUBLISHED"

-----------------------------------------------------------------------------
(* Properties of the PAID status *)

\* The purchases that are PAID after a step and were not before it.
NewlyPaid(before, after) ==
    { p \in after : p.status = "PAID" /\ \A q \in before : q.id = p.id => q.status # "PAID" }

\* The delivery passes the signature check: the client and the webhook
\* secret are configured, the signature is good and the body is raw.
Verified(req) ==
    /\ env.STRIPE_SECRET_KEY /\ env.STRIPE_WEBHOOK_SECRET
    /\ req.signature = "good" /\ req.bodyIsBuffer

\* C36: a purchase is PAID only if a webhook with a verified signature, of
\* type checkout.session.completed or checkout.session.async_payment_succeeded
\* and carrying the purchase's session id was processed earlier.  Whatever
\* delivery arrives, the rows it turns PAID carry its session id and it is
\* verified and of a succeeded type; and every step that turns a purchase
\* PAID is the processing of such a delivery, so checkout, the session
\* exchange, the downloads, unknown event types and deliveries for other
\* sessions never set PAID.
C36_PaidOnlyByVerifiedWebhook ==
    /\ [](\A req \in WebhookRequests(StripeEvents) :
            \A p \in NewlyPaid(purchases, stripeWebhookHandler(req).rows) :
                /\ Verified(req)
                /\ req.event.type \in SucceededTypes
                /\ req.event.object.id = p.stripeSessionId)
    /\ [][NewlyPaid(purchases, purchases') # {} =>
            \E req \in WebhookRequests(StripeEvents) :
                /\ Verified(req)
                /\ req.event.type \in SucceededTypes
                /\ purchases' = stripeWebhookHandler(req).rows
                /\ \A p \in NewlyPaid(purchases, purchases') :
                      p.stripeSessionId = req.event.object.id]_vars

\* Two purchases, one PAID by its webhook and one still PENDING.
C36_Witness ==
    \E p \in purchases, q \in purchases :
        /\ p.status = "PAID" /\ q.status = "PENDING"
        /\ p.stripeSessionId # q.stripeSessionId

-----------------------------------------------------------------------------
(* The frame of reconciliation *)

\* The event carries a buyer email, in customer_details or on the session.
CarriesEmail(session) ==
    session.customer_details_email # NULL \/ session.customer_email # NULL

\* C37: reconciliation for session S changes only the purchase whose session
\* id is S.  For every verified delivery: it is acknowledged with 200; no
\* purchase appears or disappears; every purchase of another session is left
\* as it was and every purchase keeps its items, id, event and session id; a
\* failed delivery leaves the payment identifier and the buyer email; a
\* succeeded one changes the buyer email only when the event carries one;
\* and a delivery for a session with no purchase, or of an unhandled type,
\* leaves the table as it was.
C37_ReconciliationFrame ==
    \A req \in WebhookRequests(StripeEvents) :
        Verified(req) =>
            LET out == stripeWebhookHandler(req)
                S == req.event.object.id
            IN
            /\ out.code = 200 /\ out.error = NULL
            /\ {r.id : r \in out.rows} = {r.id : r \in purchases}
            /\ Cardinality(out.rows) = Cardinality(purchases)
            /\ \A r \in purchases :
                LET after == RowOf(out.rows, r.id) IN
                /\ r.stripeSessionId # S => after = r
                /\ after.items = r.items
                /\ after.eventId = r.eventId
                /\ after.stripeSessionId = r.stripeSessionId
                /\ req.event.type \in FailedTypes =>
                      /\ after.stripePaymentId = r.stripePaymentId
                      /\ after.buyerEmail = r.buyerEmail
                /\ req.event.type \in SucceededTypes /\ after.buyerEmail # r.buyerEmail =>
                      CarriesEmail(req.event.object)
            /\ (\A r \in purchases : r.stripeSessionId # S) => out.rows = purchases
            /\ req.event.type \notin SucceededTypes \cup FailedTypes => out.rows = purchases

\* Two purchases and a verified succeeded delivery for the session of one,
\* carrying an email: that purchase changes, its email with it, and the
\* other does not; a delivery without an email leaves the email.
C37_Witness ==
    \E req \in WebhookRequests(StripeEvents), bare \in WebhookRequests(StripeEvents),
       r \in purchases, other \in purchases :
        /\ Verified(req) /\ req.event.type \in SucceededTypes
        /\ r.stripeSessionId = req.event.object.id
        /\ other.stripeSessionId # req.event.object.id
        /\ r.status = "PENDING"
        /\ RowOf(stripeWebhookHandler(req).rows, r.id).buyerEmail # r.buyerEmail
        /\ RowOf(stripeWebhookHandler(req).rows, other.id) = other
        /\ Verified(bare) /\ bare.event.type \in SucceededTypes
        /\ bare.event.object.id = req.event.object.id
        /\ ~CarriesEmail(bare.event.object)
        /\ RowOf(stripeWebhookHandler(bare).rows, r.id).status = "PAID"
        /\ RowOf(stripeWebhookHandler(bare).rows, r.id).buyerEmail = r.buyerEmail

-----------------------------------------------------------------------------
(* Properties of the upload-completion flag *)

\* C38: in every reachable state every PUBLISHED photo has its
\* upload-completion flag set; publish is refused with 400, changing nothing,
\* for a photo whose upload is not complete; and no step clears the flag of
\* a photo once it is set.
C38_PublishedIsUploaded ==
    /\ [](/\ \A ph \in photos : ph.status = "PUBLISHED" => ph.isUploaded
          /\ \A req \in PhotoRequests :
                LET existingPhoto == findEventPhoto(req.eventId, req.photoId) IN
                /\ req.authUser # NULL
                /\ assertEventOwner(req.eventId, req.authUser) # NOROW
                /\ existingPhoto # NOROW
                /\ ~existingPhoto.isUploaded
                => /\ publishPhoto(req).code = 400
                   /\ publishPhoto(req).rows = photos)
    /\ [][\A ph \in photos : ph.isUploaded =>
            \E after \in photos' : after.id = ph.id /\ after.isUploaded]_vars

\* A published photo next to one whose upload is not complete and whose
\* owner's publish request is refused.
C38_Witness ==
    \E ph \in photos, other \in photos, req \in PhotoRequests :
        /\ ph.status = "PUBLISHED" /\ ph.isUploaded
        /\ ~other.isUploaded
        /\ req.photoId = other.id /\ req.eventId = other.eventId
        /\ publishPhoto(req).code = 400

-----------------------------------------------------------------------------
(* Properties of unsubscribe handles *)

\* The registrations of the listener on the channel.
Registrations(channel, id) ==
    Cardinality({i \in 1..Len(registered) :
                    registered[i].channel = channel /\ registered[i].id = id})

\* C39: an unsubscribe handle removes only the subscription that created it.
\* Calling it again is a no-op and no call of it removes another
\* subscription of the channel, a second subscription of the same listener
\* function included: for every channel and listener, the registrations
\* left are the subscriptions whose handle was never called.
C39_HandleRemovesOwnSubscription ==
    \A slug \in {e.slug : e \in Events}, l \in ListenerIds :
        Registrations(getChannel(slug), l)
            = Cardinality({c \in Handles :
                              /\ calls[c].channel = getChannel(slug)
                              /\ calls[c].listener = l
                              /\ calls[c].called = 0})

-----------------------------------------------------------------------------
(* Properties of the two token kinds *)

\* A login token presented where a grant is expected: its payload has sub,
\* email and role and no purchaseId claim.
PresentedAsGrant(t) ==
    [secret |-> t.secret, sub |-> t.sub, purchaseId |-> NULL, exp |-> t.exp]

\* Login tokens of every user, and of a subject that reads like a purchase
\* id, signed by the server and not expired.
LoginTokens ==
    { signAccessToken(u, getJwtSecret, now + 1) : u \in Users \cup PurchaseIds }

\* Tokens signed with the grant secret or another one, with any sub and
\* purchaseId claims, expired or not.
GrantCandidates ==
    [secret : {getPurchaseAccessTokenSecret, getJwtSecret, "other-secret"},
     sub : PurchaseIds \cup {"u1", NULL},
     purchaseId : PurchaseIds \cup {NULL},
     exp : {now, now + 1}]

\* C40: a photographer login token is never accepted as a purchase access
\* grant, by the verification or by a download route, and a grant is
\* accepted only if it carries a purchase-id claim equal to the path
\* purchase id, under every setting of the two secrets, the one where both
\* token kinds are signed with JWT_SECRET included.
C40_LoginTokenIsNoGrant ==
    \A purchaseId \in PurchaseIds :
        /\ \A t \in LoginTokens :
              /\ verifyAccessToken(t)
              /\ ~verifyPurchaseAccessToken(purchaseId, PresentedAsGrant(t))
              /\ \A cred \in CredentialsCarrying(PresentedAsGrant(t)) :
                    downloadAll([purchaseId |-> purchaseId, cred |-> cred]).code = 401
        /\ \A t \in GrantCandidates :
              verifyPurchaseAccessToken(purchaseId, t) =>
                  t.purchaseId # NULL /\ t.purchaseId = purchaseId

\* Both kinds signed with JWT_SECRET: a PAID purchase whose own grant is
\* accepted while a valid login token is refused for it.
C40_Witness ==
    /\ env.PURCHASE_ACCESS_TOKEN_SECRET = NULL /\ env.JWT_SECRET # NULL
    /\ getPurchaseAccessTokenSecret = getJwtSecret
    /\ \E p \in purchases, t \in LoginTokens :
        /\ p.status = "PAID"
        /\ verifyPurchaseAccessToken(p.id, signPurchaseAccessToken(p.id, now))
        /\ verifyAccessToken(t)
        /\ jwtVerify(PresentedAsGrant(t), getPurchaseAccessTokenSecret)
        /\ ~verifyPurchaseAccessToken(p.id, PresentedAsGrant(t))

====
